---- MODULE Spec2Model ----
(***************************************************************************)
(* Request signing (X-Pay-Token) and its key files, webhook HMAC           *)
(* validation and dispatch, JWE envelope encryption, mutual-TLS            *)
(* configuration and certificate expiry, and the structured logger of the  *)
(* saf-visanet-connector.                                                  *)
(*                                                                         *)
(* Text is a sequence of one-character strings.  A digest or a signature   *)
(* (the hex or base64 text of a SHA-256, RSA-SHA256 or HMAC-SHA256 value)  *)
(* is one wide symbol: a string that names, injectively, the key and the   *)
(* message it was computed from.  The hash functions are taken to be       *)
(* collision free and the signatures unforgeable without the key.          *)
(***************************************************************************)
EXTENDS Integers, Sequences, FiniteSets, TLC

VARIABLES
    clock,        \* Date.now(), in milliseconds
    publicKey,    \* XPayTokenConfig.publicKey
    privateKey,   \* XPayTokenConfig.privateKey
    sharedSecret, \* WebhookHandler.sharedSecret
    xPayToken,    \* the last token returned by generateXPayToken, with what it signed
    xPayCall,     \* the validateXPayToken call that has just returned
    webhook,      \* the last envelope returned by generateSignature
    webhookCall,  \* the validateSignature call that has just returned
    middlewareCall, \* the middleware call that has just sent its response
    deliveries,   \* how often the sender has delivered the envelope in flight
    encryption,   \* the MessageEncryptionConfig instance and its pending initialisation
    encrypted,    \* the last value returned by encryptPayload, with its payload
    encryptionCall, \* the MessageEncryptionConfig call that has just returned
    sslConfig,    \* the outcome of new VisaSSLConfig()
    logEntry,     \* the entry the logger has just handed to its transports
    keyFiles,     \* what is at XPAY_PUBLIC_KEY_PATH and XPAY_PRIVATE_KEY_PATH
    xPayConfig,   \* the outcome of new XPayTokenConfig()
    keyCall,      \* the call on that instance that has just returned
    certificateStatus, \* the checkCertificateExpiry call that has just returned
    replay        \* a token or envelope presented again and again, and the answers

middlewareVars == <<middlewareCall, deliveries>>
encryptionVars == <<encryption, encrypted, encryptionCall>>
sslVars == <<sslConfig>>
loggerVars == <<logEntry>>
keyVars == <<keyFiles, xPayConfig, keyCall>>
expiryVars == <<certificateStatus>>
replayVars == <<replay>>

vars == <<clock, publicKey, privateKey, sharedSecret,
          xPayToken, xPayCall, webhook, webhookCall,
          middlewareVars, encryptionVars, sslVars,
          loggerVars, keyVars, expiryVars, replayVars>>

-----------------------------------------------------------------------------
(* JavaScript values                                                       *)

\* the value undefined: a marker no text is equal to
undefined == <<"<undefined>">>

\* null, as in generateSignature(payload, timestamp = null)
null == <<"<null>">>

\* a template literal placeholder ${v}: String(v)
TemplateString(v) ==
    IF v = undefined THEN <<"u", "n", "d", "e", "f", "i", "n", "e", "d">>
    ELSE IF v = null THEN <<"n", "u", "l", "l">>
    ELSE v

\* a default parameter value: (v = d) in a parameter list
DefaultParam(v, d) == IF v = undefined THEN d ELSE v

\* numbers are integers or NaN
Num(n) == [nan |-> FALSE, n |-> n]
NaN == [nan |-> TRUE, n |-> 0]

Minus(a, b) == IF a.nan \/ b.nan THEN NaN ELSE Num(a.n - b.n)

MathAbs(a) == IF a.nan THEN NaN ELSE Num(IF a.n < 0 THEN 0 - a.n ELSE a.n)

\* a > b: false whenever an operand is NaN
GreaterThan(a, b) == ~a.nan /\ ~b.nan /\ a.n > b.n

DecimalDigits == <<"0", "1", "2", "3", "4", "5", "6", "7", "8", "9">>

IsDigit(c) == \E i \in 1..10 : DecimalDigits[i] = c

DigitValue(c) == (CHOOSE i \in 1..10 : DecimalDigits[i] = c) - 1

\* String(n) of a non-negative integer: decimal, no leading zeros
RECURSIVE NumberToString(_)
NumberToString(n) ==
    IF n < 10 THEN <<DecimalDigits[n + 1]>>
    ELSE NumberToString(n \div 10) \o <<DecimalDigits[(n % 10) + 1]>>

\* the number of leading decimal digits of a text
RECURSIVE DigitPrefixLength(_)
DigitPrefixLength(s) ==
    IF s = <<>> \/ ~IsDigit(Head(s)) THEN 0
    ELSE 1 + DigitPrefixLength(Tail(s))

RECURSIVE DigitsValue(_)
DigitsValue(s) ==
    IF s = <<>> THEN 0
    ELSE 10 * DigitsValue(SubSeq(s, 1, Len(s) - 1)) + DigitValue(s[Len(s)])

\* parseInt(v): the longest prefix of decimal digits, NaN when there is none
\* (the texts of the model carry no white space, sign or 0x prefix)
parseInt(v) ==
    LET s == TemplateString(v)
        k == DigitPrefixLength(s)
    IN IF k = 0 THEN NaN ELSE Num(DigitsValue(SubSeq(s, 1, k)))

\* Math.floor(Date.now() / 1000)
UnixSeconds(ms) == ms \div 1000

\* the first position of separator sep in s, 0 when there is none
IndexOf(s, sep) ==
    IF \E i \in 1..Len(s) : s[i] = sep
    THEN CHOOSE i \in 1..Len(s) : s[i] = sep /\ \A j \in 1..(i - 1) : s[j] # sep
    ELSE 0

\* s.split(sep)
RECURSIVE Split(_, _)
Split(s, sep) ==
    LET i == IndexOf(s, sep)
    IN IF i = 0 THEN <<s>>
       ELSE <<SubSeq(s, 1, i - 1)>> \o Split(SubSeq(s, i + 1, Len(s)), sep)

\* array destructuring: the i-th element, undefined past the end
Element(arr, i) == IF i <= Len(arr) THEN arr[i] ELSE undefined

\* the outcome of a call: a returned boolean with the reason logged at exit,
\* or an exception that left the function
Return(v, r) == [raised |-> FALSE, value |-> v, reason |-> r]
Throw(e) == [raised |-> TRUE, value |-> FALSE, reason |-> e]

-----------------------------------------------------------------------------
(* node:crypto                                                             *)

\* the RSA key pairs that exist: the instance's, a stranger's and the one
\* a constructor that finds no private key file generates
KeyPairs == { [public |-> "pub1", private |-> "priv1"],
              [public |-> "pub2", private |-> "priv2"],
              [public |-> "pub3", private |-> "priv3"] }

\* crypto.createHash('sha256').update(s).digest('hex')
Sha256Hex(s) == <<ToString(<<"sha256", s>>)>>

\* the characters of the model that are not hexadecimal digits
NonHexChars == {"z", ":", "/", "?", "x", "v", "{", "}", "\"", "."}

\* Buffer.from(s, 'hex'): decoding stops at the first non-hex character
RECURSIVE HexDecode(_)
HexDecode(s) ==
    IF s = <<>> \/ Head(s) \in NonHexChars THEN <<>>
    ELSE <<Head(s)>> \o HexDecode(Tail(s))

\* createSign('SHA256').update(data).sign(key, 'hex'): RSASSA-PKCS1-v1_5 is
\* deterministic, the signature is a function of the key and the data
SignHex(key, data) == <<ToString(<<"RSA-SHA256", key, data>>)>>

\* createVerify('SHA256').update(data).verify(key, signature, 'hex')
VerifyHex(key, data, signature) ==
    \E kp \in KeyPairs :
        /\ kp.public = key
        /\ HexDecode(signature) = SignHex(kp.private, data)

-----------------------------------------------------------------------------
(* XPayTokenConfig                                                         *)

XV2 == <<"x", "v", "2">>

\* the replay window of validateXPayToken, in seconds
MaxAge == 300

\* a signer that leaves the query string out of what it signs
generatePreHashStringNoQuery(timestamp, resourcePath, queryString, requestBody) ==
    TemplateString(timestamp) \o TemplateString(resourcePath)
        \o TemplateString(requestBody)

\* generateXPayToken: `${timestamp}${resourcePath}${queryString}${requestBody}`
generatePreHashString(timestamp, resourcePath, queryString, requestBody) ==
    TemplateString(timestamp) \o TemplateString(resourcePath)
        \o TemplateString(queryString) \o TemplateString(requestBody)

\* a verifier that leaves the request body out of what it checks
validatePreHashStringNoBody(timestamp, resourcePath, queryString, requestBody) ==
    TemplateString(timestamp) \o TemplateString(resourcePath)
        \o TemplateString(queryString)

\* validateXPayToken: `${timestamp}${resourcePath}${queryString}${requestBody}`
validatePreHashString(timestamp, resourcePath, queryString, requestBody) ==
    TemplateString(timestamp) \o TemplateString(resourcePath)
        \o TemplateString(queryString) \o TemplateString(requestBody)

\* a version test that also lets the tag xv1 through
IsInvalidVersionLax(version) == version # XV2 /\ version # <<"x", "v", "1">>

\* validateXPayToken: version !== 'xv2'
IsInvalidVersion(version) == version # XV2

\* a window that closes one second early
IsExpiredEarly(age) == ~age.nan /\ age.n >= MaxAge

\* validateXPayToken: age > 300
IsExpired(age) == GreaterThan(age, Num(MaxAge))

\* generateXPayToken(resourcePath, queryString = '', requestBody = '')
generateXPayToken(key, ms, resourcePath, queryStringArg, requestBodyArg) ==
    LET queryString == DefaultParam(queryStringArg, <<>>)
        requestBody == DefaultParam(requestBodyArg, <<>>)
        timestamp == NumberToString(UnixSeconds(ms))
        hash == Sha256Hex(generatePreHashString(timestamp, resourcePath,
                                                queryString, requestBody))
        signature == SignHex(key, hash)
    IN XV2 \o <<":">> \o timestamp \o <<":">> \o signature

\* a verifier that checks version and age and then trusts any signature
validateXPayTokenTryUnverified(key, ms, token, resourcePath, queryString, requestBody) ==
    IF token = undefined THEN Throw("TypeError")
    ELSE
    LET parts == Split(token, ":")
        version == Element(parts, 1)
        timestamp == Element(parts, 2)
        signature == Element(parts, 3)
        age == Minus(Num(UnixSeconds(ms)), parseInt(timestamp))
    IN IF IsInvalidVersion(version) THEN Return(FALSE, "invalid_version")
       ELSE IF IsExpired(age) THEN Return(FALSE, "expired")
       ELSE IF signature = undefined THEN Throw("TypeError")
       ELSE Return(TRUE, "none")

\* the body of the try block of validateXPayToken
validateXPayTokenTry(key, ms, token, resourcePath, queryString, requestBody) ==
    IF token = undefined THEN Throw("TypeError")
    ELSE
    LET parts == Split(token, ":")
        version == Element(parts, 1)
        timestamp == Element(parts, 2)
        signature == Element(parts, 3)
        now == Num(UnixSeconds(ms))
        age == Minus(now, parseInt(timestamp))
        hash == Sha256Hex(validatePreHashString(timestamp, resourcePath,
                                                queryString, requestBody))
    IN IF IsInvalidVersion(version) THEN Return(FALSE, "invalid_version")
       ELSE IF IsExpired(age) THEN Return(FALSE, "expired")
       ELSE IF signature = undefined THEN Throw("TypeError")
       ELSE Return(VerifyHex(key, hash, signature), "none")

\* a verifier whose window opens again for a token older than two windows
validateXPayTokenReopening(key, ms, token, resourcePath, queryStringArg, requestBodyArg) ==
    LET r == validateXPayTokenTry(key, ms, token, resourcePath,
                                  DefaultParam(queryStringArg, <<>>),
                                  DefaultParam(requestBodyArg, <<>>))
        old == validateXPayTokenTry(key, ms - 2 * MaxAge * 1000, token, resourcePath,
                                    DefaultParam(queryStringArg, <<>>),
                                    DefaultParam(requestBodyArg, <<>>))
    IN IF r.raised THEN Return(FALSE, "error")
       ELSE IF r.reason = "expired" /\ ~old.raised /\ old.reason # "expired"
       THEN old
       ELSE r

\* validateXPayToken(xPayToken, resourcePath, queryString = '', requestBody = '')
validateXPayToken(key, ms, token, resourcePath, queryStringArg, requestBodyArg) ==
    LET r == validateXPayTokenTry(key, ms, token, resourcePath,
                                  DefaultParam(queryStringArg, <<>>),
                                  DefaultParam(requestBodyArg, <<>>))
    IN IF r.raised THEN Return(FALSE, "error") ELSE r

-----------------------------------------------------------------------------
(* WebhookHandler                                                          *)

\* the one-character strings of the model; any other element of a text is a
\* digest symbol
Chars == {"0", "1", "2", "3", "4", "5", "6", "7", "8", "9",
          "a", "b", "c", "d", "e", "f", "i", "l", "n", "u",
          "x", "v", "z", ":", "/", "?", "{", "}", "\"", ".", ",", "="}

\* the length of digest('base64') of a SHA-256 value
Base64DigestLength == 44

\* Buffer.from(s).length
RECURSIVE ByteLength(_)
ByteLength(s) ==
    IF s = <<>> THEN 0
    ELSE (IF Head(s) \in Chars THEN 1 ELSE Base64DigestLength) + ByteLength(Tail(s))

\* crypto.createHmac('sha256', secret).update(s).digest('base64')
HmacBase64(secret, s) == <<ToString(<<"HMAC-SHA256", secret, s>>)>>

\* a payload is a string or an object; the properties of an object are kept
\* in insertion order as name, value, name, value, ...
StringPayload(s) == [type |-> "string", value |-> s]
ObjectPayload(props) == [type |-> "object", value |-> props]

\* the members JSON.stringify writes for the properties of an object: a
\* property whose value is undefined is left out
RECURSIVE JSONMembers(_)
JSONMembers(props) ==
    IF props = <<>> THEN <<>>
    ELSE LET rest == JSONMembers(SubSeq(props, 3, Len(props)))
         IN IF <<props[2]>> = undefined THEN rest
            ELSE <<(<<"\"", props[1], "\"", ":", props[2]>>)>> \o rest

\* members.join(',')
RECURSIVE Join(_)
Join(members) ==
    IF members = <<>> THEN <<>>
    ELSE IF Len(members) = 1 THEN members[1]
    ELSE members[1] \o <<",">> \o Join(Tail(members))

\* JSON.stringify(object)
JSONStringify(props) == <<"{">> \o Join(JSONMembers(props)) \o <<"}">>

\* typeof payload === 'string' ? payload : JSON.stringify(payload)
payloadString(payload) ==
    IF payload.type = "string" THEN payload.value
    ELSE JSONStringify(payload.value)

\* the replay window of validateSignature, in seconds
MaxTimeDiff == 300

\* a signer that leaves the separator out
generateSignaturePayloadNoDot(ts, text) == TemplateString(ts) \o text

\* generateSignature: `${ts}.${payloadString}`
generateSignaturePayload(ts, text) == TemplateString(ts) \o <<".">> \o text

\* validateSignature: `${timestamp}.${payloadString}`
validateSignaturePayload(timestamp, text) ==
    TemplateString(timestamp) \o <<".">> \o text

\* a difference that keeps its sign
timeDiffSigned(now, webhookTime) == Minus(now, webhookTime)

\* validateSignature: Math.abs(now - webhookTime)
timeDiff(now, webhookTime) == MathAbs(Minus(now, webhookTime))

\* timestamp || ...: the values JavaScript takes for false
IsFalsy(v) == v = null \/ v = undefined \/ v = <<>>

\* generateSignature(payload, timestamp = null)
generateSignature(secret, ms, payload, timestampArg) ==
    LET timestamp == DefaultParam(timestampArg, null)
        ts == IF IsFalsy(timestamp) THEN NumberToString(UnixSeconds(ms))
              ELSE timestamp
        signaturePayload == generateSignaturePayload(ts, payloadString(payload))
    IN [signature |-> HmacBase64(secret, signaturePayload), timestamp |-> ts]

\* a validator that does not use the result of the comparison
validateSignatureTryUnchecked(secret, ms, payload, signature, timestamp) ==
    LET now == Num(UnixSeconds(ms))
        webhookTime == parseInt(timestamp)
        expectedSignature ==
            HmacBase64(secret, validateSignaturePayload(timestamp, payloadString(payload)))
    IN IF GreaterThan(timeDiff(now, webhookTime), Num(MaxTimeDiff))
       THEN Return(FALSE, "timestamp_expired")
       ELSE IF signature = undefined THEN Throw("TypeError")
       ELSE IF ByteLength(signature) # ByteLength(expectedSignature)
       THEN Throw("RangeError")
       ELSE Return(TRUE, "none")

\* the body of the try block of validateSignature
validateSignatureTry(secret, ms, payload, signature, timestamp) ==
    LET now == Num(UnixSeconds(ms))
        webhookTime == parseInt(timestamp)
        expectedSignature ==
            HmacBase64(secret, validateSignaturePayload(timestamp, payloadString(payload)))
    IN IF GreaterThan(timeDiff(now, webhookTime), Num(MaxTimeDiff))
       THEN Return(FALSE, "timestamp_expired")
       \* Buffer.from(undefined) throws
       ELSE IF signature = undefined THEN Throw("TypeError")
       \* crypto.timingSafeEqual throws on buffers of different length
       ELSE IF ByteLength(signature) # ByteLength(expectedSignature)
       THEN Throw("RangeError")
       ELSE Return(signature = expectedSignature, "none")

\* a validator that accepts an envelope only the first time it is delivered
validateSignatureOnce(secret, ms, payload, signature, timestamp) ==
    LET r == validateSignatureTry(secret, ms, payload, signature, timestamp)
    IN IF r.raised THEN Return(FALSE, "error")
       ELSE IF r.value /\ deliveries > 0 THEN Return(FALSE, "replayed")
       ELSE r

\* validateSignature(payload, signature, timestamp)
validateSignature(secret, ms, payload, signature, timestamp) ==
    LET r == validateSignatureTry(secret, ms, payload, signature, timestamp)
    IN IF r.raised THEN Return(FALSE, "error") ELSE r

-----------------------------------------------------------------------------
(* WebhookHandler: event dispatch and the Express middleware               *)

\* object.name: the value of a property, undefined when the object has none
RECURSIVE Property(_, _)
Property(props, name) ==
    IF props = <<>> THEN "<undefined>"
    ELSE IF props[1] = name THEN props[2]
    ELSE Property(SubSeq(props, 3, Len(props)), name)

\* the text JSON.stringify writes for a property whose value is an object,
\* as one symbol
ObjectValue(data) ==
    IF data = undefined THEN "<undefined>"
    ELSE IF data = null THEN "null"
    ELSE ToString(JSONStringify(data))

\* an event { eventType, data }; data is an object, or undefined when the
\* event has none
Event(eventType, data) ==
    [type |-> "object",
     value |-> <<"eventType", eventType, "data", ObjectValue(data)>>,
     data |-> data]

\* const { eventType, data } = event
EventTypeOf(event) ==
    IF event.type = "string" THEN "<undefined>"
    ELSE Property(event.value, "eventType")

DataOf(event) ==
    IF "data" \in DOMAIN event THEN event.data ELSE undefined

\* data.name throws a TypeError when data is undefined or null
HasNoProperties(data) == data = undefined \/ data = null

\* handleTransactionCompleted(data)
handleTransactionCompleted(data) ==
    IF HasNoProperties(data) THEN Throw("TypeError")
    ELSE Return([status |-> "processed",
                 message |-> "Transaction completed successfully",
                 transactionId |-> Property(data, "transactionId")], "none")

\* handleTransactionFailed(data)
handleTransactionFailed(data) ==
    IF HasNoProperties(data) THEN Throw("TypeError")
    ELSE Return([status |-> "processed",
                 message |-> "Transaction failure recorded",
                 transactionId |-> Property(data, "transactionId"),
                 reason |-> Property(data, "failureReason")], "none")

\* handleTransactionReversed(data)
handleTransactionReversed(data) ==
    IF HasNoProperties(data) THEN Throw("TypeError")
    ELSE Return([status |-> "processed",
                 message |-> "Transaction reversal processed",
                 transactionId |-> Property(data, "transactionId")], "none")

\* handleTransactionPending(data)
handleTransactionPending(data) ==
    IF HasNoProperties(data) THEN Throw("TypeError")
    ELSE Return([status |-> "processed",
                 message |-> "Transaction marked as pending",
                 transactionId |-> Property(data, "transactionId")], "none")

\* handleAuthorizationApproved(data)
handleAuthorizationApproved(data) ==
    IF HasNoProperties(data) THEN Throw("TypeError")
    ELSE Return([status |-> "processed",
                 message |-> "Authorization approved",
                 authorizationId |-> Property(data, "authorizationId")], "none")

\* handleAuthorizationDeclined(data)
handleAuthorizationDeclined(data) ==
    IF HasNoProperties(data) THEN Throw("TypeError")
    ELSE Return([status |-> "processed",
                 message |-> "Authorization decline recorded",
                 authorizationId |-> Property(data, "authorizationId"),
                 reason |-> Property(data, "declineReason")], "none")

\* result = await this.handler(data): what the handler returned or raised,
\* with the handlers that were invoked
Invoked(handler, r) ==
    [raised |-> r.raised, value |-> r.value, reason |-> r.reason,
     handlers |-> <<handler>>]

\* a dispatcher that has no default branch
processEventStrict(event) ==
    LET eventType == EventTypeOf(event)
        data == DataOf(event)
    IN CASE eventType = "TRANSACTION_COMPLETED" ->
              Invoked("handleTransactionCompleted", handleTransactionCompleted(data))
         [] eventType = "TRANSACTION_FAILED" ->
              Invoked("handleTransactionFailed", handleTransactionFailed(data))
         [] eventType = "TRANSACTION_REVERSED" ->
              Invoked("handleTransactionReversed", handleTransactionReversed(data))
         [] eventType = "TRANSACTION_PENDING" ->
              Invoked("handleTransactionPending", handleTransactionPending(data))
         [] eventType = "AUTHORIZATION_APPROVED" ->
              Invoked("handleAuthorizationApproved", handleAuthorizationApproved(data))
         [] eventType = "AUTHORIZATION_DECLINED" ->
              Invoked("handleAuthorizationDeclined", handleAuthorizationDeclined(data))
         [] OTHER ->
              [raised |-> TRUE, value |-> FALSE, reason |-> "Error",
               handlers |-> <<>>]

\* processEvent(event): the switch over eventType
processEvent(event) ==
    LET eventType == EventTypeOf(event)
        data == DataOf(event)
    IN CASE eventType = "TRANSACTION_COMPLETED" ->
              Invoked("handleTransactionCompleted", handleTransactionCompleted(data))
         [] eventType = "TRANSACTION_FAILED" ->
              Invoked("handleTransactionFailed", handleTransactionFailed(data))
         [] eventType = "TRANSACTION_REVERSED" ->
              Invoked("handleTransactionReversed", handleTransactionReversed(data))
         [] eventType = "TRANSACTION_PENDING" ->
              Invoked("handleTransactionPending", handleTransactionPending(data))
         [] eventType = "AUTHORIZATION_APPROVED" ->
              Invoked("handleAuthorizationApproved", handleAuthorizationApproved(data))
         [] eventType = "AUTHORIZATION_DECLINED" ->
              Invoked("handleAuthorizationDeclined", handleAuthorizationDeclined(data))
         [] OTHER ->
              [raised |-> FALSE,
               value |-> [status |-> "ignored", message |-> "Unknown event type"],
               reason |-> "none",
               handlers |-> <<>>]

\* res.status(status).json(body)
Response(status, body) == [status |-> status, body |-> body]

\* !signature || !timestamp
MissingHeaders(signature, timestamp) == IsFalsy(signature) \/ IsFalsy(timestamp)

\* the steps validateSignature took before it returned r: it computes the HMAC
\* only after the timestamp check has let the envelope through, and whatever
\* is raised is raised by the comparison that follows
ValidationSteps(r) ==
    IF r.reason = "timestamp_expired" THEN <<>>
    ELSE <<"TIMESTAMP_CHECKED", "HMAC_COMPUTED">>
            \o (IF r.value THEN <<"SIGNATURE_CHECKED">> ELSE <<>>)

\* a catch block that sends nothing
CatchResponseNone(error) == <<>>

\* catch (error) { res.status(500).json(...) }
CatchResponse(error) ==
    <<Response(500, [error |-> "Internal server error", message |-> error])>>

\* a middleware that processes the event before it looks at the headers
middlewareDispatchFirst(secret, ms, req) ==
    LET signature == req.headers.signature
        timestamp == req.headers.timestamp
        dispatch == processEvent(req.body)
        handled == <<"RECEIVED">> \o [i \in 1..Len(dispatch.handlers) |-> "HANDLER"]
    IN IF MissingHeaders(signature, timestamp)
       THEN [steps |-> handled \o <<"REJECTED">>,
             handlers |-> dispatch.handlers,
             responses |->
                <<Response(401, [error |-> "Missing signature or timestamp"])>>]
       ELSE LET isValid == validateSignature(secret, ms, req.body, signature, timestamp)
            IN IF ~isValid.value
               THEN [steps |-> handled \o <<"HEADERS_PRESENT">>
                                 \o ValidationSteps(isValid) \o <<"REJECTED">>,
                     handlers |-> dispatch.handlers,
                     responses |-> <<Response(401, [error |-> "Invalid signature"])>>]
               ELSE IF dispatch.raised
                    THEN [steps |-> handled \o <<"HEADERS_PRESENT">>
                                      \o ValidationSteps(isValid),
                          handlers |-> dispatch.handlers,
                          responses |-> CatchResponse(dispatch.reason)]
                    ELSE [steps |-> handled \o <<"HEADERS_PRESENT">>
                                      \o ValidationSteps(isValid) \o <<"DISPATCHED">>,
                          handlers |-> dispatch.handlers,
                          responses |->
                             <<Response(200, [received |-> TRUE,
                                              result |-> dispatch.value])>>]

\* the function middleware() returns, applied to one request: the steps it
\* takes in order, the handlers it invokes and the responses it sends
middleware(secret, ms, req) ==
    LET signature == req.headers.signature
        timestamp == req.headers.timestamp
    IN IF MissingHeaders(signature, timestamp)
       THEN [steps |-> <<"RECEIVED", "REJECTED">>,
             handlers |-> <<>>,
             responses |->
                <<Response(401, [error |-> "Missing signature or timestamp"])>>]
       ELSE LET isValid == validateSignature(secret, ms, req.body, signature, timestamp)
                validated == <<"RECEIVED", "HEADERS_PRESENT">> \o ValidationSteps(isValid)
            IN IF ~isValid.value
               THEN [steps |-> validated \o <<"REJECTED">>,
                     handlers |-> <<>>,
                     responses |-> <<Response(401, [error |-> "Invalid signature"])>>]
               ELSE LET dispatch == processEvent(req.body)
                        handled == validated
                                     \o [i \in 1..Len(dispatch.handlers) |-> "HANDLER"]
                    IN IF dispatch.raised
                       THEN [steps |-> handled,
                             handlers |-> dispatch.handlers,
                             responses |-> CatchResponse(dispatch.reason)]
                       ELSE [steps |-> handled \o <<"DISPATCHED">>,
                             handlers |-> dispatch.handlers,
                             responses |->
                                <<Response(200, [received |-> TRUE,
                                                 result |-> dispatch.value])>>]

-----------------------------------------------------------------------------
(* MessageEncryptionConfig: JWE envelopes                                  *)
(*                                                                         *)
(* A PEM file is named by what it holds: the certificate or the private    *)
(* key of key pair A or B.  A compact JWE names the key pair it was        *)
(* encrypted to, the key id of its header and the text it wraps; only a    *)
(* key store that holds the private key of that pair reads the text.       *)

\* the environment variable that names the path is not set
NoPath == "unset"

\* a path is configured and no file is there
AbsentFile == "absent"

\* a file that is there and that readFileSync may not read
UnreadableFile == "unreadable"

\* fs.existsSync(path)
existsSync(file) == file \notin {NoPath, AbsentFile}

\* a file that is there and is not PEM
UnparsableFile == "garbage"

\* the files keystore.add(..., 'pem') accepts
IsPem(file) == file \in {"certA", "certB", "keyA", "keyB"}

\* !this.encryptionKey, !this.decryptionKey: the property was never assigned
NoKey == [loaded |-> FALSE]

\* the key keystore.add(pem, 'pem') resolves to
KeyOf(pem) ==
    [loaded |-> TRUE,
     pair |-> IF pem \in {"certA", "keyA"} THEN "A" ELSE "B",
     private |-> pem \in {"keyA", "keyB"}]

\* initializeKeyStore, from the decryption key on, up to the next await
LoadDecryptionKey(instance) ==
    IF ~existsSync(instance.decryptionKeyFile)
    THEN [instance EXCEPT !.pending = "done"]
    ELSE IF instance.decryptionKeyFile = UnreadableFile
    THEN [instance EXCEPT !.pending = "rejected"]
    ELSE [instance EXCEPT !.pending = "addingDecryptionKey"]

\* initializeKeyStore, from the encryption certificate on, up to the next await
LoadEncryptionKey(instance) ==
    IF ~existsSync(instance.encryptionCertFile)
    THEN LoadDecryptionKey(instance)
    ELSE IF instance.encryptionCertFile = UnreadableFile
    THEN [instance EXCEPT !.pending = "rejected"]
    ELSE [instance EXCEPT !.pending = "addingEncryptionKey"]

\* initializeKeyStore(), up to its first await
initializeKeyStore(instance) ==
    LoadEncryptionKey([instance EXCEPT !.keystore = {}])

\* initializeKeyStore, resumed when the promise of keystore.add has settled,
\* up to the next await or the end; a rejection leaves the function by throw
KeyStoreAdded(instance) ==
    IF instance.pending = "addingEncryptionKey"
    THEN IF ~IsPem(instance.encryptionCertFile)
         THEN [instance EXCEPT !.pending = "rejected"]
         ELSE LoadDecryptionKey(
                 [instance EXCEPT
                     !.encryptionKey = KeyOf(instance.encryptionCertFile),
                     !.keystore = @ \cup {KeyOf(instance.encryptionCertFile)}])
    ELSE IF ~IsPem(instance.decryptionKeyFile)
         THEN [instance EXCEPT !.pending = "rejected"]
         ELSE [instance EXCEPT
                  !.decryptionKey = KeyOf(instance.decryptionKeyFile),
                  !.keystore = @ \cup {KeyOf(instance.decryptionKeyFile)},
                  !.pending = "done"]

\* the key material of an instance
KeyMaterial(instance) ==
    [keystore |-> instance.keystore,
     encryptionKey |-> instance.encryptionKey,
     decryptionKey |-> instance.decryptionKey]

\* new MessageEncryptionConfig(): validateConfig() throws without a key id;
\* initializeKeyStore() is called and not awaited, so the constructor returns
\* when that function reaches its first await
MessageEncryptionConfig(keyId, encryptionCertFile, decryptionKeyFile) ==
    IF IsFalsy(keyId)
    THEN [constructed |-> FALSE,
          error |-> "Missing required configuration: ENCRYPTION_KEY_ID"]
    ELSE LET instance ==
                initializeKeyStore([constructed |-> TRUE,
                                    keyId |-> keyId,
                                    encryptionCertFile |-> encryptionCertFile,
                                    decryptionKeyFile |-> decryptionKeyFile,
                                    keystore |-> {},
                                    encryptionKey |-> NoKey,
                                    decryptionKey |-> NoKey,
                                    pending |-> "start",
                                    returned |-> [keystore |-> {}]])
         IN [instance EXCEPT !.returned = KeyMaterial(instance)]

\* a serializer that writes a string without its quotes
JSONStringifyValueBare(payload) ==
    IF payload.type = "string" THEN payload.value
    ELSE JSONStringify(payload.value)

\* JSON.stringify(payload): a string in quotes, an object by its members
JSONStringifyValue(payload) ==
    IF payload.type = "string" THEN <<"\"">> \o payload.value \o <<"\"">>
    ELSE JSONStringify(payload.value)

\* the properties of the members that follow the opening brace
RECURSIVE ParseMembers(_)
ParseMembers(text) ==
    IF Len(text) < 6 THEN <<>>
    ELSE <<text[2], text[5]>> \o
         ParseMembers(IF text[6] = "," THEN SubSeq(text, 7, Len(text))
                      ELSE SubSeq(text, 6, Len(text)))

\* JSON.parse(text)
JSONParse(text) ==
    IF Len(text) >= 2 /\ text[1] = "\"" /\ text[Len(text)] = "\""
    THEN Return(StringPayload(SubSeq(text, 2, Len(text) - 1)), "none")
    ELSE IF Len(text) >= 2 /\ text[1] = "{" /\ text[Len(text)] = "}"
    THEN Return(ObjectPayload(ParseMembers(Tail(text))), "none")
    ELSE Throw("SyntaxError")

\* jose.JWE.createEncrypt({format: 'compact', fields: {alg, enc, kid}}, key)
\*     .update(text).final()
Jwe(key, kid, text) ==
    [type |-> "jwe", value |-> text, recipient |-> key.pair, kid |-> kid,
     intact |-> TRUE]

\* a value JSON.stringify does not serialize: a BigInt
BigIntValue == "10n"

\* JSON.stringify(payload) throws a TypeError
Unserializable(payload) ==
    /\ payload.type = "object"
    /\ \E i \in 1..Len(payload.value) : i % 2 = 0 /\ payload.value[i] = BigIntValue

\* the body of the try block of encryptPayload
encryptPayloadTry(instance, payload) ==
    IF ~instance.encryptionKey.loaded
    THEN Return(payload, "not_encrypted")
    ELSE IF Unserializable(payload) THEN Throw("TypeError")
    ELSE Return(Jwe(instance.encryptionKey, instance.keyId,
                    JSONStringifyValue(payload)), "encrypted")

\* encryptPayload(payload): the catch block calls JSON.stringify(payload) for
\* its log entry before it throws, and that call can throw itself
encryptPayload(instance, payload) ==
    LET r == encryptPayloadTry(instance, payload)
    IN IF r.raised
       THEN IF Unserializable(payload) THEN Throw("TypeError")
            ELSE Throw("Failed to encrypt payload")
       ELSE r

\* the body of the try block of decryptPayload
decryptPayloadTry(instance, encryptedPayload) ==
    IF ~instance.decryptionKey.loaded
    THEN Return(encryptedPayload, "not_decrypted")
    ELSE IF encryptedPayload.type # "jwe" THEN Throw("not a JWE")
    ELSE IF \A key \in instance.keystore :
               ~(key.private /\ key.pair = encryptedPayload.recipient)
    THEN Throw("no key found")
    ELSE IF ~encryptedPayload.intact THEN Throw("authentication failed")
    ELSE JSONParse(encryptedPayload.value)

\* decryptPayload(encryptedPayload)
decryptPayload(instance, encryptedPayload) ==
    LET r == decryptPayloadTry(instance, encryptedPayload)
    IN IF r.raised THEN Throw("Failed to decrypt payload") ELSE r

\* if (request[field]): the values JavaScript takes for false
IsFalsyValue(v) == v \in {"<undefined>", "null", "false", "0", ""}

\* delete request[field]
RECURSIVE Delete(_, _)
Delete(props, name) ==
    IF props = <<>> THEN <<>>
    ELSE IF props[1] = name THEN Delete(SubSeq(props, 3, Len(props)), name)
    ELSE <<props[1], props[2]>> \o Delete(SubSeq(props, 3, Len(props)), name)

\* sensitiveFields.forEach(field => { if (request[field]) { ... } }): the
\* request and fieldsToEncrypt after the loop
RECURSIVE MoveFields(_, _, _)
MoveFields(request, fieldsToEncrypt, sensitiveFields) ==
    IF sensitiveFields = <<>>
    THEN [request |-> request, fieldsToEncrypt |-> fieldsToEncrypt]
    ELSE LET field == Head(sensitiveFields)
         IN IF IsFalsyValue(Property(request, field))
            THEN MoveFields(request, fieldsToEncrypt, Tail(sensitiveFields))
            ELSE MoveFields(Delete(request, field),
                            Delete(fieldsToEncrypt, field)
                               \o <<field, Property(request, field)>>,
                            Tail(sensitiveFields))

\* request.encryptedData of a request that has none
NoEncryptedData == [type |-> "undefined"]

\* encryptSensitiveFields(request, sensitiveFields): what it returns or
\* raises, and the caller's request object as the call leaves it
encryptSensitiveFields(instance, request, sensitiveFields) ==
    LET moved == MoveFields(request, <<>>, sensitiveFields)
    IN IF moved.fieldsToEncrypt # <<>>
       THEN LET r == encryptPayload(instance, ObjectPayload(moved.fieldsToEncrypt))
            IN IF r.raised
               THEN [raised |-> TRUE, value |-> FALSE, reason |-> r.reason,
                     request |-> [props |-> moved.request,
                                  encryptedData |-> NoEncryptedData]]
               ELSE LET result == [props |-> moved.request, encryptedData |-> r.value]
                    IN [raised |-> FALSE, value |-> result, reason |-> r.reason,
                        request |-> result]
       ELSE LET result == [props |-> request, encryptedData |-> NoEncryptedData]
            IN [raised |-> FALSE, value |-> result, reason |-> "none",
                request |-> result]

-----------------------------------------------------------------------------
(* The environment: clock, callers and the texts they send                 *)

\* Date.now() when the instance is constructed, in milliseconds
Epoch == 1000900

\* the instants at which the clock is read, in milliseconds after Epoch
ClockOffsets == {0, 299100, 300000, 300100, 600100}

ClockSamples == {Epoch + d : d \in ClockOffsets}

\* differences, in seconds, between a presented timestamp and the verifier's clock
SkewSamples == {0 - 400, 0 - 301, 0 - 300, 0 - 299, 0, 300, 301}

Paths == {<<"/">>, <<"/", "a">>, <<"/", "b">>}
Queries == {<<>>, <<"a">>, <<"b">>, undefined}
Bodies == {<<>>, <<"a">>, <<"b">>}

NoToken == [issued |-> FALSE]
NoEnvelope == [issued |-> FALSE]
NoCall == [called |-> FALSE]

\* version:timestamp:signature
Assemble(version, timestamp, signature) ==
    version \o <<":">> \o timestamp \o <<":">> \o signature

\* the timestamp texts a caller may present when the verifier's clock reads ms
TimestampTexts(ms) ==
    LET nowText == NumberToString(UnixSeconds(ms))
    IN {NumberToString(UnixSeconds(ms) + d) : d \in SkewSamples}
         \cup {<<"a", "b", "c">>, nowText \o <<"a">>, <<"0">> \o nowText}

\* the signature a holder of key makes for timestamp text ts and a request
SignatureFor(key, ts, resourcePath, queryString, requestBody) ==
    SignHex(key, Sha256Hex(ts \o resourcePath \o DefaultParam(queryString, <<>>)
                               \o DefaultParam(requestBody, <<>>)))

\* the tokens presented together with the request (p, q, b): the token in
\* flight, tokens the key holder signed for p, q, b under any timestamp,
\* and malformed or forged ones
PresentedTokens(p, q, b) ==
    LET nowText == NumberToString(UnixSeconds(clock))
        good == SignatureFor(privateKey, nowText, p, q, b)
    IN (IF xPayToken = NoToken THEN {} ELSE {xPayToken.token})
       \cup {Assemble(XV2, ts, SignatureFor(privateKey, ts, p, q, b)) :
                ts \in TimestampTexts(clock)}
       \cup {Assemble(v, nowText, good) : v \in {<<"x", "v", "1">>, <<>>}}
       \cup {Assemble(<<"x", "v", "1">>, ts, SignatureFor(privateKey, ts, p, q, b)) :
                ts \in {NumberToString(UnixSeconds(clock) - MaxAge - 1)}}
       \cup {Assemble(XV2, nowText, SignatureFor("priv2", nowText, p, q, b)),
             Assemble(XV2, nowText, <<"0", "0">>),
             Assemble(XV2, nowText, good \o <<"z", "z">>),
             Assemble(XV2, nowText, good) \o <<":", "0">>,
             XV2 \o <<":">> \o nowText,
             XV2,
             nowText,
             undefined}

\* the payloads a webhook carries: objects and strings
Payloads ==
    { ObjectPayload(<<>>),
      ObjectPayload(<<"a", "1">>),
      ObjectPayload(<<"a", "2">>),
      ObjectPayload(<<"a", "1", "b", "<undefined>">>),
      StringPayload(<<"{", "\"", "a", "\"", ":", "1", "}">>),
      StringPayload(<<"a">>) }

\* the signatures presented with the envelope in flight: its own, one made
\* with another secret, and malformed ones
PresentedSignatures ==
    { webhook.signature,
      HmacBase64("secret2", generateSignaturePayload(webhook.timestamp,
                                                     payloadString(webhook.payload))),
      <<"0">>,
      webhook.signature \o <<"=">>,
      <<>>,
      undefined }

\* the timestamps presented with the envelope in flight: its own, one 400
\* seconds behind the verifier's clock, and none
PresentedTimestamps ==
    { webhook.timestamp,
      NumberToString(UnixSeconds(clock) - 400),
      undefined }

\* the kinds of event processEvent has a handler for
EventTypes ==
    { "TRANSACTION_COMPLETED", "TRANSACTION_FAILED", "TRANSACTION_REVERSED",
      "TRANSACTION_PENDING", "AUTHORIZATION_APPROVED", "AUTHORIZATION_DECLINED" }

\* the data an event carries: of a transaction, of an authorization, empty, none
DataSamples ==
    { <<"transactionId", "T1", "failureReason", "R1">>,
      <<"authorizationId", "A1", "declineReason", "R2">>,
      <<>>,
      undefined }

\* the events a sender delivers: of a known kind, of an unknown kind, of no kind
Events ==
    { Event(eventType, data) :
        eventType \in EventTypes \cup {"NOT_A_REAL_EVENT", "<undefined>"},
        data \in DataSamples }

\* the timestamps a sender signs with: the current time (null), one outside
\* the window on either side, and one that is not a number
SenderTimestamps(ms) ==
    { null,
      NumberToString(UnixSeconds(ms) - MaxTimeDiff - 1),
      NumberToString(UnixSeconds(ms) + MaxTimeDiff + 1),
      <<"a", "b", "c">> }

\* the bodies delivered with the envelope in flight: its own and another event
PresentedBodies ==
    { webhook.payload,
      Event("TRANSACTION_COMPLETED", <<"transactionId", "T2">>) }

\* how often one envelope is delivered
MaxDeliveries == 3

NoInstance == [constructed |-> FALSE]

\* the key files before any XPayTokenConfig was constructed: not looked at yet
NoFiles == [looked |-> FALSE]

\* process.env.ENCRYPTION_KEY_ID: set or not
KeyIds == {<<"k", "1">>, undefined}

\* what is at JWE_ENCRYPTION_CERT_PATH
EncryptionCertFiles ==
    {NoPath, AbsentFile, UnreadableFile, UnparsableFile, "certA", "certB"}

\* what is at JWE_DECRYPTION_KEY_PATH
DecryptionKeyFiles ==
    {NoPath, AbsentFile, UnreadableFile, UnparsableFile, "keyA", "keyB"}

\* the payloads handed to encryptPayload
EncryptionPayloads ==
    { ObjectPayload(<<>>),
      ObjectPayload(<<"a", "1">>),
      ObjectPayload(<<"a", "1", "b", "2">>),
      StringPayload(<<"a">>),
      StringPayload(<<>>) }

\* a compact JWE of which a character of the ciphertext or of the tag was
\* changed on the way: the authentication tag no longer verifies
Tamper(token) == [token EXCEPT !.intact = FALSE]

\* the values handed to decryptPayload: what encryptPayload last returned,
\* an envelope a counterparty encrypted to key pair A, that envelope
\* tampered with, and a string that is not a compact JWE
ReceivedEnvelopes ==
    { encrypted.result.value,
      Jwe(KeyOf("certA"), <<"k", "2">>, JSONStringify(<<"b", "2">>)),
      Tamper(Jwe(KeyOf("certA"), <<"k", "2">>, JSONStringify(<<"b", "2">>))),
      StringPayload(<<"a", ".", "b">>) }

\* the requests handed to encryptSensitiveFields
Requests ==
    { <<"amount", "100", "cardNumber", "4111", "cvv", "123">>,
      <<"cardNumber", "4111", "amount", "100">>,
      <<"amount", "100", "pin", "0">>,
      <<"amount", "100", "pin", BigIntValue>>,
      <<"cardNumber", "4111", "cvv", BigIntValue, "amount", "100">>,
      <<"amount", "100">>,
      <<>> }

\* the lists of sensitive fields
SensitiveFieldLists ==
    { <<"cardNumber", "cvv">>,
      <<"pin">>,
      <<"cvv", "cardNumber", "cvv">>,
      <<>> }

-----------------------------------------------------------------------------
(* Actions                                                                 *)

Init ==
    /\ clock = Epoch
    /\ publicKey = "pub1"
    /\ privateKey = "priv1"
    /\ sharedSecret = "secret1"
    /\ xPayToken = NoToken
    /\ xPayCall = NoCall
    /\ webhook = NoEnvelope
    /\ webhookCall = NoCall
    /\ middlewareCall = NoCall
    /\ deliveries = 0
    /\ encryption = NoInstance
    /\ encrypted = NoEnvelope
    /\ encryptionCall = NoCall
    /\ sslConfig = NoInstance
    /\ logEntry = NoCall
    /\ keyFiles = NoFiles
    /\ xPayConfig = NoInstance
    /\ keyCall = NoCall
    /\ certificateStatus = NoCall
    /\ replay = NoCall

\* time passes between calls; a call runs to completion
Tick ==
    /\ xPayCall = NoCall
    /\ webhookCall = NoCall
    /\ middlewareCall = NoCall
    /\ encryptionCall = NoCall
    /\ \E t \in ClockSamples : t > clock /\ clock' = t
    /\ UNCHANGED <<publicKey, privateKey, sharedSecret,
                   xPayToken, xPayCall, webhook, webhookCall>>
    /\ UNCHANGED <<middlewareVars, encryptionVars, sslVars>>
    /\ UNCHANGED <<loggerVars, keyVars, expiryVars, replayVars>>

\* a caller signs a request
GenerateXPayTokenCall ==
    /\ xPayCall = NoCall
    /\ \E p \in Paths, q \in Queries, b \in Bodies :
          xPayToken' = [issued |-> TRUE,
                        token |-> generateXPayToken(privateKey, clock, p, q, b),
                        resourcePath |-> p,
                        queryString |-> q,
                        requestBody |-> b,
                        at |-> clock]
    /\ UNCHANGED <<clock, publicKey, privateKey, sharedSecret,
                   xPayCall, webhook, webhookCall>>
    /\ UNCHANGED <<middlewareVars, encryptionVars, sslVars>>
    /\ UNCHANGED <<loggerVars, keyVars, expiryVars, replayVars>>

\* a caller verifies a token against a request
ValidateXPayTokenCall ==
    /\ xPayCall = NoCall
    /\ \E p \in Paths, q \in Queries, b \in Bodies :
         \E t \in PresentedTokens(p, q, b) :
            xPayCall' = [called |-> TRUE,
                         token |-> t,
                         resourcePath |-> p,
                         queryString |-> q,
                         requestBody |-> b,
                         at |-> clock,
                         result |-> validateXPayToken(publicKey, clock, t, p, q, b)]
    /\ UNCHANGED <<clock, publicKey, privateKey, sharedSecret,
                   xPayToken, webhook, webhookCall>>
    /\ UNCHANGED <<middlewareVars, encryptionVars, sslVars>>
    /\ UNCHANGED <<loggerVars, keyVars, expiryVars, replayVars>>

\* the caller has taken the result
XPayReturn ==
    /\ xPayCall # NoCall
    /\ xPayCall' = NoCall
    /\ UNCHANGED <<clock, publicKey, privateKey, sharedSecret,
                   xPayToken, webhook, webhookCall>>
    /\ UNCHANGED <<middlewareVars, encryptionVars, sslVars>>
    /\ UNCHANGED <<loggerVars, keyVars, expiryVars, replayVars>>

\* a sender signs a payload, with the current time or a timestamp of its own
GenerateSignatureCall ==
    /\ webhookCall = NoCall
    /\ \E payload \in Payloads, ts \in {null, undefined} \cup TimestampTexts(clock) :
          LET r == generateSignature(sharedSecret, clock, payload, ts)
          IN webhook' = [issued |-> TRUE,
                         payload |-> payload,
                         signature |-> r.signature,
                         timestamp |-> r.timestamp,
                         at |-> clock]
    /\ UNCHANGED <<clock, publicKey, privateKey, sharedSecret,
                   xPayToken, xPayCall, webhookCall>>
    /\ UNCHANGED <<middlewareVars, encryptionVars, sslVars>>
    /\ UNCHANGED <<loggerVars, keyVars, expiryVars, replayVars>>

\* a receiver validates an envelope
ValidateSignatureCall ==
    /\ webhookCall = NoCall
    /\ webhook # NoEnvelope
    /\ \E payload \in Payloads, signature \in PresentedSignatures,
          timestamp \in PresentedTimestamps :
            webhookCall' = [called |-> TRUE,
                            payload |-> payload,
                            signature |-> signature,
                            timestamp |-> timestamp,
                            at |-> clock,
                            result |-> validateSignature(sharedSecret, clock,
                                            payload, signature, timestamp)]
    /\ UNCHANGED <<clock, publicKey, privateKey, sharedSecret,
                   xPayToken, xPayCall, webhook>>
    /\ UNCHANGED <<middlewareVars, encryptionVars, sslVars>>
    /\ UNCHANGED <<loggerVars, keyVars, expiryVars, replayVars>>

\* the receiver has taken the result
WebhookReturn ==
    /\ webhookCall # NoCall
    /\ webhookCall' = NoCall
    /\ UNCHANGED <<clock, publicKey, privateKey, sharedSecret,
                   xPayToken, xPayCall, webhook>>
    /\ UNCHANGED <<middlewareVars, encryptionVars, sslVars>>
    /\ UNCHANGED <<loggerVars, keyVars, expiryVars, replayVars>>

\* the counterparty signs an event for delivery
SignEventCall ==
    /\ middlewareCall = NoCall
    /\ \E event \in Events \cup Payloads, ts \in SenderTimestamps(clock) :
          LET r == generateSignature(sharedSecret, clock, event, ts)
          IN webhook' = [issued |-> TRUE,
                         payload |-> event,
                         signature |-> r.signature,
                         timestamp |-> r.timestamp,
                         at |-> clock]
    /\ deliveries' = 0
    /\ UNCHANGED <<clock, publicKey, privateKey, sharedSecret,
                   xPayToken, xPayCall, webhookCall, middlewareCall>>
    /\ UNCHANGED <<encryptionVars, sslVars>>
    /\ UNCHANGED <<loggerVars, keyVars, expiryVars, replayVars>>

\* a request reaches the endpoint and the middleware answers it
MiddlewareCall ==
    /\ middlewareCall = NoCall
    /\ webhook # NoEnvelope
    /\ \E body \in PresentedBodies, signature \in PresentedSignatures,
          timestamp \in PresentedTimestamps :
          LET req == [headers |-> [signature |-> signature, timestamp |-> timestamp],
                      body |-> body]
              redelivery == /\ body = webhook.payload
                            /\ signature = webhook.signature
                            /\ timestamp = webhook.timestamp
          IN /\ redelivery => deliveries < MaxDeliveries
             /\ middlewareCall' = [called |-> TRUE,
                                   op |-> "middleware",
                                   req |-> req,
                                   at |-> clock,
                                   delivery |-> IF redelivery THEN deliveries + 1 ELSE 0,
                                   outcome |-> middleware(sharedSecret, clock, req)]
             /\ deliveries' = IF redelivery THEN deliveries + 1 ELSE deliveries
    /\ UNCHANGED <<clock, publicKey, privateKey, sharedSecret,
                   xPayToken, xPayCall, webhook, webhookCall>>
    /\ UNCHANGED <<encryptionVars, sslVars>>
    /\ UNCHANGED <<loggerVars, keyVars, expiryVars, replayVars>>

\* a caller hands an event to processEvent
ProcessEventCall ==
    /\ middlewareCall = NoCall
    /\ \E event \in Events \cup Payloads :
          middlewareCall' = [called |-> TRUE,
                             op |-> "processEvent",
                             event |-> event,
                             outcome |-> processEvent(event)]
    /\ UNCHANGED <<clock, publicKey, privateKey, sharedSecret,
                   xPayToken, xPayCall, webhook, webhookCall, deliveries>>
    /\ UNCHANGED <<encryptionVars, sslVars>>
    /\ UNCHANGED <<loggerVars, keyVars, expiryVars, replayVars>>

\* the response has been sent, the result has been taken
MiddlewareReturn ==
    /\ middlewareCall # NoCall
    /\ middlewareCall' = NoCall
    /\ UNCHANGED <<clock, publicKey, privateKey, sharedSecret,
                   xPayToken, xPayCall, webhook, webhookCall, deliveries>>
    /\ UNCHANGED <<encryptionVars, sslVars>>
    /\ UNCHANGED <<loggerVars, keyVars, expiryVars, replayVars>>

\* new MessageEncryptionConfig() in some environment
MessageEncryptionConfigCall ==
    /\ encryption = NoInstance
    /\ \E keyId \in KeyIds, encryptionCertFile \in EncryptionCertFiles,
          decryptionKeyFile \in DecryptionKeyFiles :
          encryption' = MessageEncryptionConfig(keyId, encryptionCertFile,
                                                decryptionKeyFile)
    /\ UNCHANGED <<clock, publicKey, privateKey, sharedSecret,
                   xPayToken, xPayCall, webhook, webhookCall>>
    /\ UNCHANGED <<middlewareVars, encrypted, encryptionCall, sslVars>>
    /\ UNCHANGED <<loggerVars, keyVars, expiryVars, replayVars>>

\* the promise initializeKeyStore awaits settles and the function goes on;
\* this happens between calls, any time after the constructor has returned
KeyStoreAddSettles ==
    /\ encryption.constructed
    /\ encryption.pending \in {"addingEncryptionKey", "addingDecryptionKey"}
    /\ encryptionCall = NoCall
    /\ encryption' = KeyStoreAdded(encryption)
    /\ UNCHANGED <<clock, publicKey, privateKey, sharedSecret,
                   xPayToken, xPayCall, webhook, webhookCall>>
    /\ UNCHANGED <<middlewareVars, encrypted, encryptionCall, sslVars>>
    /\ UNCHANGED <<loggerVars, keyVars, expiryVars, replayVars>>

\* a caller encrypts a payload
EncryptPayloadCall ==
    /\ encryption.constructed
    /\ encryptionCall = NoCall
    /\ \E payload \in EncryptionPayloads :
          LET r == encryptPayload(encryption, payload)
          IN /\ encrypted' = [issued |-> TRUE,
                              payload |-> payload,
                              result |-> r,
                              keyMaterial |-> KeyMaterial(encryption)]
             /\ encryptionCall' = [called |-> TRUE,
                                   op |-> "encryptPayload",
                                   payload |-> payload,
                                   result |-> r]
    /\ UNCHANGED <<clock, publicKey, privateKey, sharedSecret,
                   xPayToken, xPayCall, webhook, webhookCall>>
    /\ UNCHANGED <<middlewareVars, encryption, sslVars>>
    /\ UNCHANGED <<loggerVars, keyVars, expiryVars, replayVars>>

\* a caller decrypts what it received
DecryptPayloadCall ==
    /\ encryption.constructed
    /\ encryptionCall = NoCall
    /\ encrypted # NoEnvelope
    /\ \E encryptedPayload \in ReceivedEnvelopes :
          encryptionCall' = [called |-> TRUE,
                             op |-> "decryptPayload",
                             encryptedPayload |-> encryptedPayload,
                             result |-> decryptPayload(encryption, encryptedPayload)]
    /\ UNCHANGED <<clock, publicKey, privateKey, sharedSecret,
                   xPayToken, xPayCall, webhook, webhookCall>>
    /\ UNCHANGED <<middlewareVars, encryption, encrypted, sslVars>>
    /\ UNCHANGED <<loggerVars, keyVars, expiryVars, replayVars>>

\* a caller encrypts some fields of a request
EncryptSensitiveFieldsCall ==
    /\ encryption.constructed
    /\ encryptionCall = NoCall
    /\ \E request \in Requests, sensitiveFields \in SensitiveFieldLists :
          encryptionCall' = [called |-> TRUE,
                             op |-> "encryptSensitiveFields",
                             request |-> request,
                             sensitiveFields |-> sensitiveFields,
                             result |-> encryptSensitiveFields(encryption, request,
                                                               sensitiveFields)]
    /\ UNCHANGED <<clock, publicKey, privateKey, sharedSecret,
                   xPayToken, xPayCall, webhook, webhookCall>>
    /\ UNCHANGED <<middlewareVars, encryption, encrypted, sslVars>>
    /\ UNCHANGED <<loggerVars, keyVars, expiryVars, replayVars>>

\* the caller has taken the result
EncryptionReturn ==
    /\ encryptionCall # NoCall
    /\ encryptionCall' = NoCall
    /\ UNCHANGED <<clock, publicKey, privateKey, sharedSecret,
                   xPayToken, xPayCall, webhook, webhookCall>>
    /\ UNCHANGED <<middlewareVars, encryption, encrypted, sslVars>>
    /\ UNCHANGED <<loggerVars, keyVars, expiryVars, replayVars>>

Next ==
    \/ Tick
    \/ GenerateXPayTokenCall
    \/ ValidateXPayTokenCall
    \/ XPayReturn

Spec == Init /\ [][Next]_vars

NextWebhook ==
    \/ Tick
    \/ GenerateSignatureCall
    \/ ValidateSignatureCall
    \/ WebhookReturn

SpecWebhook == Init /\ [][NextWebhook]_vars

NextMiddleware ==
    \/ Tick
    \/ SignEventCall
    \/ MiddlewareCall
    \/ ProcessEventCall
    \/ MiddlewareReturn

SpecMiddleware == Init /\ [][NextMiddleware]_vars

NextEncryption ==
    \/ MessageEncryptionConfigCall
    \/ KeyStoreAddSettles
    \/ EncryptPayloadCall
    \/ DecryptPayloadCall
    \/ EncryptSensitiveFieldsCall
    \/ EncryptionReturn

SpecEncryption == Init /\ [][NextEncryption]_vars

-----------------------------------------------------------------------------
(* Properties of the Request Signer/Verifier                               *)

\* the ':'-separated segments of the token of the call that has returned
CallParts == Split(xPayCall.token, ":")

\* the timestamp segment of that token, as a number
CallTimestamp == parseInt(Element(CallParts, 2))

\* seconds by which that timestamp is behind the verifier's clock
CallAge == UnixSeconds(xPayCall.at) - CallTimestamp.n

\* the token of the call is xv2:ts:signature, signed by the instance's key
\* for the timestamp text it carries and the request of the call
CallCorrectlySigned ==
    CallParts = <<XV2, Element(CallParts, 2),
                  SignatureFor(privateKey, Element(CallParts, 2),
                               xPayCall.resourcePath, xPayCall.queryString,
                               xPayCall.requestBody)>>

\* the call verifies the token in flight, unmodified
CallPresentsIssuedToken ==
    /\ xPayCall # NoCall
    /\ xPayToken # NoToken
    /\ xPayCall.token = xPayToken.token

\* two texts of the same length that differ in exactly one character
DiffersInOneChar(s, t) ==
    /\ s # undefined
    /\ t # undefined
    /\ Len(s) = Len(t)
    /\ Cardinality({i \in 1..Len(s) : s[i] # t[i]}) = 1

\* C1: the token generateXPayToken returns for (path, query, body) is accepted
\* by validateXPayToken with the same path, query and body whenever the
\* verification happens no more than 300 seconds after the generation.
C1_RoundTrip ==
    ( /\ CallPresentsIssuedToken
      /\ xPayCall.resourcePath = xPayToken.resourcePath
      /\ xPayCall.queryString = xPayToken.queryString
      /\ xPayCall.requestBody = xPayToken.requestBody
      /\ xPayCall.at - xPayToken.at <= MaxAge * 1000 )
    => xPayCall.result = Return(TRUE, "none")

\* a token verified exactly 300 seconds after it was generated, with a query
C1_Witness ==
    /\ CallPresentsIssuedToken
    /\ xPayCall.resourcePath = xPayToken.resourcePath
    /\ xPayCall.queryString = xPayToken.queryString
    /\ xPayCall.requestBody = xPayToken.requestBody
    /\ xPayCall.queryString = <<"a">>
    /\ xPayCall.at - xPayToken.at = MaxAge * 1000
    /\ xPayCall.result.value

\* exactly one of path, query and body differs, in one character
TamperedInOneChar ==
    \/ /\ DiffersInOneChar(xPayCall.resourcePath, xPayToken.resourcePath)
       /\ xPayCall.queryString = xPayToken.queryString
       /\ xPayCall.requestBody = xPayToken.requestBody
    \/ /\ xPayCall.resourcePath = xPayToken.resourcePath
       /\ DiffersInOneChar(xPayCall.queryString, xPayToken.queryString)
       /\ xPayCall.requestBody = xPayToken.requestBody
    \/ /\ xPayCall.resourcePath = xPayToken.resourcePath
       /\ xPayCall.queryString = xPayToken.queryString
       /\ DiffersInOneChar(xPayCall.requestBody, xPayToken.requestBody)

\* C2: a fresh, unmodified token is rejected when exactly one of the body,
\* the path or the query given to the verifier differs from the signed value
\* in a single character.
C2_TamperRejected ==
    ( /\ CallPresentsIssuedToken
      /\ UnixSeconds(xPayCall.at) - UnixSeconds(xPayToken.at) <= MaxAge
      /\ TamperedInOneChar )
    => (~xPayCall.result.raised /\ ~xPayCall.result.value)

\* a fresh token signed for body "a" and verified against body "b": the
\* signature check is what rejects it
C2_Witness ==
    /\ CallPresentsIssuedToken
    /\ UnixSeconds(xPayCall.at) - UnixSeconds(xPayToken.at) <= MaxAge
    /\ xPayCall.resourcePath = xPayToken.resourcePath
    /\ xPayCall.queryString = xPayToken.queryString
    /\ xPayToken.requestBody = <<"a">>
    /\ xPayCall.requestBody = <<"b">>
    /\ xPayCall.result = Return(FALSE, "none")

\* C3: a correctly signed token whose timestamp is at most 300 seconds behind
\* the verifier's clock is accepted (300 included), and a token whose
\* timestamp is 301 or more seconds behind is rejected whatever its signature.
C3_ReplayWindow ==
    (xPayCall # NoCall /\ xPayCall.token # undefined /\ ~CallTimestamp.nan)
    => /\ (CallCorrectlySigned /\ CallAge >= 0 /\ CallAge <= MaxAge)
            => xPayCall.result = Return(TRUE, "none")
       /\ (CallAge >= MaxAge + 1)
            => (~xPayCall.result.raised /\ ~xPayCall.result.value)

\* a correctly signed token exactly 300 seconds old has been accepted
C3_Witness ==
    /\ xPayCall # NoCall
    /\ xPayCall.token # undefined
    /\ ~CallTimestamp.nan
    /\ CallCorrectlySigned
    /\ CallAge = MaxAge
    /\ xPayCall.result.value

\* C4: a token whose timestamp lies more than 300 seconds in the future of
\* the verifier's clock is rejected, even when its signature is correct.
C4_FutureRejected ==
    ( /\ xPayCall # NoCall
      /\ xPayCall.token # undefined
      /\ ~CallTimestamp.nan
      /\ CallTimestamp.n - UnixSeconds(xPayCall.at) > MaxAge )
    => (~xPayCall.result.raised /\ ~xPayCall.result.value)

\* C5: a token whose first segment is not xv2 is rejected for its version,
\* before its timestamp or signature is looked at; a generated token reads
\* xv2:<Unix seconds at generation>:<signature>.
C5_VersionTag ==
    /\ ( /\ xPayCall # NoCall
         /\ xPayCall.token # undefined
         /\ Element(CallParts, 1) # XV2 )
       => xPayCall.result = Return(FALSE, "invalid_version")
    /\ (xPayToken # NoToken)
       => LET parts == Split(xPayToken.token, ":")
          IN /\ Len(parts) = 3
             /\ parts[1] = XV2
             /\ parts[2] = NumberToString(UnixSeconds(xPayToken.at))
             /\ parts[3] = SignatureFor(privateKey, parts[2],
                                        xPayToken.resourcePath,
                                        xPayToken.queryString,
                                        xPayToken.requestBody)

\* a token tagged xv1 with a stale timestamp has been rejected for its version
C5_Witness ==
    /\ xPayCall # NoCall
    /\ xPayCall.token # undefined
    /\ xPayToken # NoToken
    /\ Element(CallParts, 1) = <<"x", "v", "1">>
    /\ ~CallTimestamp.nan
    /\ CallAge > MaxAge
    /\ xPayCall.result.reason = "invalid_version"

-----------------------------------------------------------------------------
(* Properties of the Webhook Validator                                     *)

\* a text of decimal digits: a timestamp that denotes a number of seconds
AllDigits(ts) ==
    /\ Len(ts) > 0
    /\ \A i \in 1..Len(ts) : IsDigit(ts[i])

\* the distance, in seconds, between a timestamp of digits and a clock reading
Skew(ts, ms) ==
    LET d == UnixSeconds(ms) - DigitsValue(ts)
    IN IF d < 0 THEN 0 - d ELSE d

\* the HMAC of '<timestamp>.<payload>' under the instance's secret
ExpectedSignature(payload, timestamp) ==
    HmacBase64(sharedSecret,
               TemplateString(timestamp) \o <<".">> \o payloadString(payload))

\* the envelope in flight carries a timestamp of digits that is fresh at the
\* time of the call
EnvelopeFreshAtCall ==
    /\ webhookCall # NoCall
    /\ webhook # NoEnvelope
    /\ AllDigits(webhook.timestamp)
    /\ Skew(webhook.timestamp, webhookCall.at) <= MaxTimeDiff

\* C6 (as claimed): validateXPayToken and validateSignature never raise, and
\* a missing token or signature, a token without separators, a non-numeric
\* timestamp, a signature of the wrong length, an expired timestamp and a
\* mismatching signature all yield false.
C6_NeverRaisesAndRejects ==
    /\ (xPayCall # NoCall) =>
          /\ ~xPayCall.result.raised
          /\ ( \/ xPayCall.token = undefined
               \/ Len(CallParts) < 3
               \/ CallTimestamp.nan
               \/ CallAge > MaxAge
               \/ ~CallCorrectlySigned ) => ~xPayCall.result.value
    /\ (webhookCall # NoCall) =>
          /\ ~webhookCall.result.raised
          /\ ( \/ webhookCall.signature = undefined
               \/ ByteLength(webhookCall.signature) # Base64DigestLength
               \/ parseInt(webhookCall.timestamp).nan
               \/ ( /\ AllDigits(webhookCall.timestamp)
                    /\ Skew(webhookCall.timestamp, webhookCall.at) > MaxTimeDiff )
               \/ webhookCall.signature #
                     ExpectedSignature(webhookCall.payload, webhookCall.timestamp)
             ) => ~webhookCall.result.value

\* C7: the signature and timestamp generateSignature returns for a payload
\* make validateSignature return true for that payload, while the timestamp
\* is within 300 seconds of the verifier's clock.
C7_WebhookRoundTrip ==
    ( /\ EnvelopeFreshAtCall
      /\ webhookCall.payload = webhook.payload
      /\ webhookCall.signature = webhook.signature
      /\ webhookCall.timestamp = webhook.timestamp )
    => webhookCall.result = Return(TRUE, "none")

\* an object payload signed with a timestamp of the sender's own, 300 seconds
\* ahead of the verifier's clock, has been accepted
C7_Witness ==
    /\ EnvelopeFreshAtCall
    /\ webhookCall.payload = webhook.payload
    /\ webhookCall.signature = webhook.signature
    /\ webhookCall.timestamp = webhook.timestamp
    /\ webhook.payload.type = "object"
    /\ webhook.timestamp # NumberToString(UnixSeconds(webhook.at))
    /\ Skew(webhook.timestamp, webhookCall.at) = MaxTimeDiff
    /\ webhookCall.result.value

\* the signature of the call is the envelope's with one character changed
SignatureCorrupted ==
    /\ webhookCall.payload = webhook.payload
    /\ webhookCall.timestamp = webhook.timestamp
    /\ DiffersInOneChar(webhookCall.signature, webhook.signature)

\* C8 (as claimed): with a valid fresh envelope, validateSignature returns
\* false when one character of the signature is changed, and returns false
\* when the payload is changed while signature and timestamp are kept.
C8_AnyPayloadChangeRejected ==
    EnvelopeFreshAtCall =>
       /\ SignatureCorrupted => ~webhookCall.result.value
       /\ ( /\ webhookCall.signature = webhook.signature
            /\ webhookCall.timestamp = webhook.timestamp
            /\ webhookCall.payload # webhook.payload ) => ~webhookCall.result.value

\* C8 (amended): with a valid fresh envelope, validateSignature returns false
\* when one character of the signature is changed, and returns false when
\* the payload is changed to one whose serialized text (the string itself,
\* or JSON.stringify of the object) differs, signature and timestamp kept.
C8_TamperRejected ==
    EnvelopeFreshAtCall =>
       /\ SignatureCorrupted =>
             (~webhookCall.result.raised /\ ~webhookCall.result.value)
       /\ ( /\ webhookCall.signature = webhook.signature
            /\ webhookCall.timestamp = webhook.timestamp
            /\ payloadString(webhookCall.payload) # payloadString(webhook.payload) )
          => webhookCall.result = Return(FALSE, "none")

\* the payload {a:1} was signed and {a:2} presented with the same signature
\* and timestamp: rejected by the comparison
C8_Witness ==
    /\ EnvelopeFreshAtCall
    /\ webhookCall.signature = webhook.signature
    /\ webhookCall.timestamp = webhook.timestamp
    /\ webhook.payload = ObjectPayload(<<"a", "1">>)
    /\ webhookCall.payload = ObjectPayload(<<"a", "2">>)
    /\ webhookCall.result = Return(FALSE, "none")

\* C9: an envelope whose integer timestamp is more than 300 seconds from the
\* verifier's clock, behind or ahead, is rejected for its timestamp whatever
\* the signature; at 300 seconds or less the timestamp check lets it pass.
C9_SkewWindow ==
    (webhookCall # NoCall /\ AllDigits(webhookCall.timestamp)) =>
       /\ (Skew(webhookCall.timestamp, webhookCall.at) > MaxTimeDiff)
             => webhookCall.result = Return(FALSE, "timestamp_expired")
       /\ (Skew(webhookCall.timestamp, webhookCall.at) <= MaxTimeDiff)
             => webhookCall.result.reason # "timestamp_expired"

\* an envelope stamped 301 seconds ahead of the verifier's clock and carrying
\* the right HMAC for that timestamp has been rejected
C9_Witness ==
    /\ webhookCall # NoCall
    /\ AllDigits(webhookCall.timestamp)
    /\ DigitsValue(webhookCall.timestamp) - UnixSeconds(webhookCall.at) = MaxTimeDiff + 1
    /\ webhookCall.signature =
          ExpectedSignature(webhookCall.payload, webhookCall.timestamp)
    /\ webhookCall.result = Return(FALSE, "timestamp_expired")

\* C10 (as claimed): validateSignature returns true only if the timestamp
\* denotes a number of seconds within 300 s of the verifier's clock and the
\* HMAC matches.
C10_FreshAndAuthentic ==
    (webhookCall # NoCall /\ webhookCall.result.value) =>
       /\ AllDigits(webhookCall.timestamp)
       /\ Skew(webhookCall.timestamp, webhookCall.at) <= MaxTimeDiff
       /\ webhookCall.signature =
             ExpectedSignature(webhookCall.payload, webhookCall.timestamp)

-----------------------------------------------------------------------------
(* Properties of the webhook endpoint                                      *)

\* the middleware has just answered a request
MiddlewareAnswered ==
    /\ middlewareCall # NoCall
    /\ middlewareCall.op = "middleware"

\* how often x occurs in the sequence s
Occurrences(s, x) == Cardinality({i \in 1..Len(s) : s[i] = x})

\* the request just answered lacks a header
CallMissesHeader ==
    MissingHeaders(middlewareCall.req.headers.signature,
                   middlewareCall.req.headers.timestamp)

\* the request just answered carries both headers and passes validateSignature
CallPassesValidation ==
    /\ ~CallMissesHeader
    /\ validateSignature(sharedSecret, middlewareCall.at, middlewareCall.req.body,
                         middlewareCall.req.headers.signature,
                         middlewareCall.req.headers.timestamp).value

\* C11: in one middleware call a handler is invoked at most once, and only
\* after the headers were found present, the timestamp check passed and the
\* HMAC check passed, in this order; a call with a missing header ends rejected
\* without an HMAC having been computed, a call that fails validation ends
\* rejected, neither invokes a handler, and nothing follows a rejection.
C11_HandlerAfterChecks ==
    MiddlewareAnswered =>
       LET steps == middlewareCall.outcome.steps
       IN /\ Occurrences(steps, "HANDLER") <= 1
          /\ Len(middlewareCall.outcome.handlers) = Occurrences(steps, "HANDLER")
          /\ \A i \in 1..Len(steps) :
                steps[i] = "HANDLER" =>
                   SubSeq(steps, 1, i - 1) =
                      <<"RECEIVED", "HEADERS_PRESENT", "TIMESTAMP_CHECKED",
                        "HMAC_COMPUTED", "SIGNATURE_CHECKED">>
          /\ CallMissesHeader =>
                /\ Occurrences(steps, "HMAC_COMPUTED") = 0
                /\ Occurrences(steps, "HANDLER") = 0
                /\ steps[Len(steps)] = "REJECTED"
          /\ ~CallPassesValidation =>
                /\ Occurrences(steps, "HANDLER") = 0
                /\ steps[Len(steps)] = "REJECTED"
          /\ \A i \in 1..Len(steps) : steps[i] = "REJECTED" => i = Len(steps)

\* a validated envelope has been dispatched to a handler
C11_Witness ==
    /\ MiddlewareAnswered
    /\ middlewareCall.outcome.steps =
          <<"RECEIVED", "HEADERS_PRESENT", "TIMESTAMP_CHECKED", "HMAC_COMPUTED",
            "SIGNATURE_CHECKED", "HANDLER", "DISPATCHED">>

\* C12: every middleware call sends exactly one response: 200 with
\* {received: true, result: R}, R being what the dispatch returned, exactly
\* when validation passed and the dispatch returned; 401 with {error: message}
\* exactly when a header is missing or validateSignature returned false; 500
\* exactly when the dispatch raised.
C12_OneResponse ==
    MiddlewareAnswered =>
       LET responses == middlewareCall.outcome.responses
           dispatch == processEvent(middlewareCall.req.body)
       IN /\ Len(responses) = 1
          /\ responses[1].status \in {200, 401, 500}
          /\ responses[1].status = 200 <=> (CallPassesValidation /\ ~dispatch.raised)
          /\ responses[1].status = 200 =>
                responses[1].body = [received |-> TRUE, result |-> dispatch.value]
          /\ responses[1].status = 401 <=> ~CallPassesValidation
          /\ responses[1].status = 401 => DOMAIN responses[1].body = {"error"}
          /\ responses[1].status = 500 <=> (CallPassesValidation /\ dispatch.raised)

\* a validated event of a known kind without data has been answered with 500
C12_Witness ==
    /\ MiddlewareAnswered
    /\ CallPassesValidation
    /\ processEvent(middlewareCall.req.body).raised
    /\ Len(middlewareCall.outcome.responses) = 1
    /\ middlewareCall.outcome.responses[1].status = 500

\* the outcome is a rejection
IsRejection(outcome) ==
    /\ outcome.steps[Len(outcome.steps)] = "REJECTED"

\* C13 (as claimed): all rejected calls look the same from outside: whatever
\* request could have been rejected at the instant of the call just rejected,
\* for a missing header, a timestamp outside the window or an HMAC mismatch,
\* gets the same status and the same body.
C13_RejectionsAlike ==
    (MiddlewareAnswered /\ IsRejection(middlewareCall.outcome)) =>
       \A body \in PresentedBodies, signature \in PresentedSignatures,
          timestamp \in PresentedTimestamps :
          LET other == middleware(sharedSecret, middlewareCall.at,
                                  [headers |-> [signature |-> signature,
                                                timestamp |-> timestamp],
                                   body |-> body])
          IN IsRejection(other) =>
                other.responses = middlewareCall.outcome.responses

\* the processEvent call that has just returned
ProcessEventReturned ==
    /\ middlewareCall # NoCall
    /\ middlewareCall.op = "processEvent"

\* the handler of each known kind of event
HandlerOf(eventType) ==
    CASE eventType = "TRANSACTION_COMPLETED" -> "handleTransactionCompleted"
      [] eventType = "TRANSACTION_FAILED" -> "handleTransactionFailed"
      [] eventType = "TRANSACTION_REVERSED" -> "handleTransactionReversed"
      [] eventType = "TRANSACTION_PENDING" -> "handleTransactionPending"
      [] eventType = "AUTHORIZATION_APPROVED" -> "handleAuthorizationApproved"
      [] eventType = "AUTHORIZATION_DECLINED" -> "handleAuthorizationDeclined"

FreshRedelivery ==
    /\ MiddlewareAnswered
    /\ middlewareCall.delivery >= 1
    /\ AllDigits(webhook.timestamp)
    /\ Skew(webhook.timestamp, middlewareCall.at) <= MaxTimeDiff

\* C15: no delivery is remembered: the envelope in flight, delivered again
\* while its timestamp is within 300 seconds of the clock, passes validation
\* at every delivery and is dispatched at every delivery, the handler of its
\* event being invoked once per delivery, as at the first delivery.
C15_RedeliveryAccepted ==
    FreshRedelivery =>
       LET outcome == middlewareCall.outcome
           dispatch == processEvent(webhook.payload)
       IN /\ Occurrences(outcome.steps, "SIGNATURE_CHECKED") = 1
          /\ outcome.handlers = dispatch.handlers
          /\ EventTypeOf(webhook.payload) \in EventTypes =>
                Len(outcome.handlers) = 1
          /\ outcome.responses =
                IF dispatch.raised THEN CatchResponse(dispatch.reason)
                ELSE <<Response(200, [received |-> TRUE, result |-> dispatch.value])>>

\* the third delivery of one envelope has been dispatched to a handler
C15_Witness ==
    /\ FreshRedelivery
    /\ middlewareCall.delivery = MaxDeliveries
    /\ Len(middlewareCall.outcome.handlers) = 1
    /\ middlewareCall.outcome.responses[1].status = 200

-----------------------------------------------------------------------------
(* Properties of the Envelope Encryptor                                    *)

\* a call of the named operation has just returned
EncryptionReturned(op) ==
    /\ encryptionCall # NoCall
    /\ encryptionCall.op = op

\* decryptPayload has just been applied to what encryptPayload returned, the
\* encryption certificate and the decryption key being loaded at both calls
BothLoadedRoundTrip ==
    /\ EncryptionReturned("decryptPayload")
    /\ encryptionCall.encryptedPayload = encrypted.result.value
    /\ encrypted.keyMaterial.encryptionKey.loaded
    /\ encrypted.keyMaterial.decryptionKey.loaded
    /\ encryption.encryptionKey.loaded
    /\ encryption.decryptionKey.loaded

\* decryptPayload has returned the payload that was encrypted
RoundTripGivesPayload ==
    /\ ~encryptionCall.result.raised
    /\ encryptionCall.result.value = encrypted.payload

Names(props) == {props[i] : i \in {j \in 1..Len(props) : j % 2 = 1}}

\* the names in a list of fields
Listed(sensitiveFields) == {sensitiveFields[i] : i \in 1..Len(sensitiveFields)}

\* C17 (as claimed): encryptSensitiveFields(request, fields) returns the
\* request without any of the listed fields it had, with one encryptedData
\* that is the encryption of exactly those fields, and with every other field
\* as it was; a request that has none of the listed fields is returned as it
\* was, without encryptedData.
C17_FieldsReplaced ==
    (EncryptionReturned("encryptSensitiveFields") /\ ~encryptionCall.result.raised) =>
       LET request == encryptionCall.request
           result == encryptionCall.result.value
           removed == Names(request) \cap Listed(encryptionCall.sensitiveFields)
       IN IF removed = {}
          THEN /\ result.props = request
               /\ result.encryptedData = NoEncryptedData
          ELSE /\ Names(result.props) = Names(request) \ removed
               /\ \A name \in Names(result.props) :
                     Property(result.props, name) = Property(request, name)
               /\ result.encryptedData.type = "jwe"
               /\ LET fields == JSONParse(result.encryptedData.value)
                  IN /\ ~fields.raised
                     /\ fields.value.type = "object"
                     /\ Names(fields.value.value) = removed
                     /\ \A name \in removed :
                           Property(fields.value.value, name) = Property(request, name)

\* C18 (as claimed): without an encryption key encryptPayload returns the
\* payload as it is, and what the caller gets tells it apart from an
\* encryption; in particular the encryptedData of what encryptSensitiveFields
\* returns is never the plaintext of the fields.
C18_PassThroughSignalled ==
    /\ (EncryptionReturned("encryptPayload") /\ ~encryption.encryptionKey.loaded) =>
          /\ ~encryptionCall.result.raised
          /\ encryptionCall.result.value = encryptionCall.payload
    /\ (EncryptionReturned("encryptSensitiveFields") /\ ~encryptionCall.result.raised) =>
          encryptionCall.result.value.encryptedData.type \in {"undefined", "jwe"}

\* C19 (as claimed): after the constructor has returned, keystore,
\* encryptionKey and decryptionKey are what they were when it returned, and
\* an instance configured with a readable encryption certificate returns an
\* encrypted token from every encryptPayload call.
C19_KeyMaterialReadOnly ==
    /\ encryption.constructed => KeyMaterial(encryption) = encryption.returned
    /\ ( /\ EncryptionReturned("encryptPayload")
         /\ IsPem(encryption.encryptionCertFile) ) =>
          /\ ~encryptionCall.result.raised
          /\ encryptionCall.result.value.type = "jwe"

-----------------------------------------------------------------------------
(* VisaSSLConfig: credentials and certificates for mutual TLS              *)

\* const required = { 'VISA_USER_ID': this.userId, ... }
RequiredSettings(env) ==
    << <<"VISA_USER_ID", env.userId>>,
       <<"VISA_PASSWORD", env.password>>,
       <<"VISA_CERT_PATH", env.certPath>>,
       <<"VISA_KEY_PATH", env.keyPath>>,
       <<"VISA_CA_PATH", env.caPath>> >>

\* a filter that stops at the first entry without a value
RECURSIVE MissingSettingsFirst(_)
MissingSettingsFirst(required) ==
    IF required = <<>> THEN <<>>
    ELSE IF IsFalsy(Head(required)[2]) THEN <<Head(required)[1]>>
    ELSE MissingSettingsFirst(Tail(required))

\* Object.entries(required).filter(([_key, value]) => !value).map(([key]) => key)
RECURSIVE MissingSettings(_)
MissingSettings(required) ==
    IF required = <<>> THEN <<>>
    ELSE (IF IsFalsy(Head(required)[2]) THEN <<Head(required)[1]>> ELSE <<>>)
            \o MissingSettings(Tail(required))

\* validateConfig() of VisaSSLConfig: throws an error that lists what is missing
sslValidateConfig(env) ==
    LET missing == MissingSettings(RequiredSettings(env))
    IN IF Len(missing) > 0
       THEN [raised |-> TRUE,
             error |-> [message |-> "Missing required SSL configuration",
                        missing |-> missing]]
       ELSE [raised |-> FALSE]

\* loadCertificates(): fs.readFileSync of the three files in turn; the first
\* that cannot be read ends the function by throw
loadCertificates(files) ==
    IF ~files.cert
    THEN [raised |-> TRUE, filesRead |-> <<"cert">>,
          error |-> [message |-> "Failed to load SSL certificates"]]
    ELSE IF ~files.key
    THEN [raised |-> TRUE, filesRead |-> <<"cert", "key">>,
          error |-> [message |-> "Failed to load SSL certificates"]]
    ELSE IF ~files.ca
    THEN [raised |-> TRUE, filesRead |-> <<"cert", "key", "ca">>,
          error |-> [message |-> "Failed to load SSL certificates"]]
    ELSE [raised |-> FALSE, filesRead |-> <<"cert", "key", "ca">>]

\* new VisaSSLConfig(): the instance, or the error thrown, with the files
\* that were read on the way
VisaSSLConfig(env, files) ==
    LET validated == sslValidateConfig(env)
        loaded == loadCertificates(files)
    IN IF validated.raised
       THEN [constructed |-> FALSE, error |-> validated.error, filesRead |-> <<>>]
       ELSE IF loaded.raised
       THEN [constructed |-> FALSE, error |-> loaded.error,
             filesRead |-> loaded.filesRead]
       ELSE [constructed |-> TRUE,
             userId |-> env.userId, password |-> env.password,
             certPath |-> env.certPath, keyPath |-> env.keyPath,
             caPath |-> env.caPath,
             cert |-> "cert", key |-> "key", ca |-> "ca",
             filesRead |-> loaded.filesRead]

\* a setting of the environment: not set, set to the empty string, set
SettingValues == {undefined, <<>>, <<"x">>}

\* process.env at construction
Environments ==
    [userId : SettingValues, password : SettingValues, certPath : SettingValues,
     keyPath : SettingValues, caPath : SettingValues]

\* which of the three files can be read
FileSystems == [cert : BOOLEAN, key : BOOLEAN, ca : BOOLEAN]

\* new VisaSSLConfig() in some environment
VisaSSLConfigCall ==
    /\ sslConfig = NoInstance
    /\ \E env \in Environments, files \in FileSystems :
          sslConfig' = [env |-> env, files |-> files,
                        outcome |-> VisaSSLConfig(env, files)]
    /\ UNCHANGED <<clock, publicKey, privateKey, sharedSecret,
                   xPayToken, xPayCall, webhook, webhookCall>>
    /\ UNCHANGED <<middlewareVars, encryptionVars>>
    /\ UNCHANGED <<loggerVars, keyVars, expiryVars, replayVars>>

NextSSL == VisaSSLConfigCall

SpecSSL == Init /\ [][NextSSL]_vars

\* the names of the settings the environment lacks
AbsentSettings(env) ==
    {RequiredSettings(env)[i][1] :
        i \in {j \in 1..Len(RequiredSettings(env)) :
                    RequiredSettings(env)[j][2] \in {undefined, <<>>}}}

\* C20: constructing VisaSSLConfig throws when a user id, password,
\* certificate path, key path or CA path is absent, the error naming every
\* absent setting and no file having been read, and throws when one of the
\* three files cannot be read; an instance that is returned has all five
\* settings and all three files.
C20_FailsFast ==
    sslConfig # NoInstance =>
       LET env == sslConfig.env
           files == sslConfig.files
           outcome == sslConfig.outcome
       IN /\ AbsentSettings(env) # {} =>
                /\ ~outcome.constructed
                /\ {outcome.error.missing[i] : i \in 1..Len(outcome.error.missing)}
                      = AbsentSettings(env)
                /\ outcome.filesRead = <<>>
          /\ ~(files.cert /\ files.key /\ files.ca) => ~outcome.constructed
          /\ outcome.constructed =>
                /\ AbsentSettings(env) = {}
                /\ files.cert /\ files.key /\ files.ca
                /\ outcome.cert = "cert" /\ outcome.key = "key" /\ outcome.ca = "ca"

\* a construction without password and CA path has thrown, naming both
C20_Witness ==
    /\ sslConfig # NoInstance
    /\ AbsentSettings(sslConfig.env) = {"VISA_PASSWORD", "VISA_CA_PATH"}
    /\ ~sslConfig.outcome.constructed
    /\ sslConfig.outcome.error.missing = <<"VISA_PASSWORD", "VISA_CA_PATH">>
    /\ sslConfig.outcome.filesRead = <<>>

-----------------------------------------------------------------------------
(* C21: constructing MessageEncryptionConfig without ENCRYPTION_KEY_ID, or *)
(* with a configured certificate or key path whose file is missing,        *)
(* unreadable or unparsable, fails the constructor call: no instance       *)
(* exists that was built from such a configuration.                        *)

\* a configured path whose file cannot be loaded
Unloadable(file) == file \in {AbsentFile, UnreadableFile, UnparsableFile}

C21_ConfigErrorsFatal ==
    encryption.constructed =>
        /\ ~IsFalsy(encryption.keyId)
        /\ ~Unloadable(encryption.encryptionCertFile)
        /\ ~Unloadable(encryption.decryptionKeyFile)

-----------------------------------------------------------------------------
(* C22: decryptPayload on a token that is malformed, tampered with or      *)
(* encrypted to a key the instance does not hold always fails with         *)
(* 'Failed to decrypt payload', whatever the state of the instance; it     *)
(* never returns a value.                                                  *)

\* a token no private key of the instance can turn into a payload
Undecryptable(instance, token) ==
    \/ token.type # "jwe"
    \/ /\ token.type = "jwe"
       /\ \/ ~token.intact
          \/ \A key \in instance.keystore :
                 ~(key.private /\ key.pair = token.recipient)

C22_BadTokensRaise ==
    (/\ encryptionCall.called
     /\ encryptionCall.op = "decryptPayload"
     /\ Undecryptable(encryption, encryptionCall.encryptedPayload))
    => /\ encryptionCall.result.raised
       /\ encryptionCall.result.reason = "Failed to decrypt payload"

-----------------------------------------------------------------------------
(* logger: the structured log helpers and maskSensitiveData                *)
(*                                                                         *)
(* A logged value is a string, a number, null or an object; an object is   *)
(* the sequence of its properties, each a name and a value, in insertion   *)
(* order.  Property names are text, so that the name test of               *)
(* maskSensitiveData is computed on their characters.                      *)

StringValue(text) == [type |-> "string", value |-> text]
NumberValue == [type |-> "number"]
NullValue == [type |-> "null"]
UndefinedValue == [type |-> "undefined"]
BooleanValue(b) == [type |-> "boolean", value |-> b]
Prop(name, value) == [name |-> name, value |-> value]
LogObject(props) == [type |-> "object", props |-> props]

UpperCase == <<"A", "B", "C", "D", "E", "F", "G", "H", "I", "J", "K", "L", "M", "N", "O", "P", "Q", "R", "S", "T", "U", "V", "W", "X", "Y", "Z">>
LowerCase == <<"a", "b", "c", "d", "e", "f", "g", "h", "i", "j", "k", "l", "m", "n", "o", "p", "q", "r", "s", "t", "u", "v", "w", "x", "y", "z">>

\* c.toLowerCase()
CharToLowerCase(c) ==
    IF \E i \in 1..Len(UpperCase) : UpperCase[i] = c
    THEN LowerCase[CHOOSE i \in 1..Len(UpperCase) : UpperCase[i] = c]
    ELSE c

\* key.toLowerCase().replace(/[_-]/g, '')
RECURSIVE LowerKey(_)
LowerKey(key) ==
    IF key = <<>> THEN <<>>
    ELSE IF Head(key) \in {"_", "-"} THEN LowerKey(Tail(key))
    ELSE <<CharToLowerCase(Head(key))>> \o LowerKey(Tail(key))

\* s.includes(part)
Includes(s, part) ==
    \E i \in 1..(Len(s) - Len(part) + 1) : SubSeq(s, i, i + Len(part) - 1) = part

\* maskSensitiveData: sensitiveFields
sensitiveFields ==
    << <<"p", "a", "s", "s", "w", "o", "r", "d">>,
       <<"p", "a", "s", "s">>,
       <<"p", "w", "d">>,
       <<"s", "e", "c", "r", "e", "t">>,
       <<"t", "o", "k", "e", "n">>,
       <<"a", "p", "i", "k", "e", "y">>,
       <<"a", "p", "i", "_", "k", "e", "y">>,
       <<"a", "u", "t", "h", "o", "r", "i", "z", "a", "t", "i", "o", "n">>,
       <<"a", "u", "t", "h">>,
       <<"c", "a", "r", "d", "n", "u", "m", "b", "e", "r">>,
       <<"c", "a", "r", "d", "_", "n", "u", "m", "b", "e", "r">>,
       <<"c", "v", "v">>,
       <<"c", "v", "c">>,
       <<"p", "a", "n">>,
       <<"p", "i", "n">>,
       <<"s", "s", "n">>,
       <<"p", "r", "i", "v", "a", "t", "e", "_", "k", "e", "y">>,
       <<"p", "r", "i", "v", "a", "t", "e", "k", "e", "y">>,
       <<"s", "h", "a", "r", "e", "d", "S", "e", "c", "r", "e", "t">> >>

\* sensitiveFields.some(field => lowerKey.includes(field))
IsSensitive(lowerKey) ==
    \E i \in 1..Len(sensitiveFields) : Includes(lowerKey, sensitiveFields[i])

FourStars == <<"*", "*", "*", "*">>

\* the value maskSensitiveData puts in place of a sensitive one
Masked(lowerKey, value) ==
    IF value.type = "string"
    THEN IF Len(value.value) <= 4 THEN StringValue(FourStars)
         ELSE IF Includes(lowerKey, <<"c", "a", "r", "d">>)
                 \/ Includes(lowerKey, <<"p", "a", "n">>)
         THEN StringValue(FourStars \o SubSeq(value.value, Len(value.value) - 3,
                                              Len(value.value)))
         ELSE StringValue(SubSeq(value.value, 1, 4) \o FourStars)
    ELSE StringValue(FourStars)

\* maskSensitiveData(data)
RECURSIVE maskSensitiveData(_)
maskSensitiveData(data) ==
    IF data.type # "object" THEN data
    ELSE LogObject(
            [i \in 1..Len(data.props) |->
                LET key == data.props[i].name
                    value == data.props[i].value
                    lowerKey == LowerKey(key)
                IN IF IsSensitive(lowerKey) THEN Prop(key, Masked(lowerKey, value))
                   ELSE IF value.type = "object"
                   THEN Prop(key, maskSensitiveData(value))
                   ELSE Prop(key, value)])

\* what a helper hands to winston
Entry(level, message, meta) == [level |-> level, message |-> message, meta |-> meta]

\* logger.logFunctionEntry(functionName, params = {}, module = '')
logFunctionEntry(functionName, params) ==
    Entry("debug", <<"ENTER", functionName>>,
          LogObject(<<Prop(<<"p", "a", "r", "a", "m", "s">>,
                              maskSensitiveData(params))>>))

\* logger.logFunctionExit(functionName, result = null, startTime = null, module = '')
logFunctionExit(functionName, result) ==
    Entry("debug", <<"EXIT", functionName>>,
          LogObject(<<Prop(<<"r", "e", "s", "u", "l", "t">>,
                              maskSensitiveData(result))>>))

\* logger.logApiRequest(method, url, headers = {}, body = null)
logApiRequest(method, url, headers, body) ==
    Entry("info", <<"API REQUEST", method, url>>,
          LogObject(<<Prop(<<"h", "e", "a", "d", "e", "r", "s">>,
                              maskSensitiveData(headers)),
                         Prop(<<"b", "o", "d", "y">>, maskSensitiveData(body))>>))

\* logger.logApiResponse(method, url, statusCode, body = null, duration = null)
logApiResponse(method, url, statusCode, body) ==
    Entry(IF statusCode >= 400 THEN "error" ELSE "info",
          <<"API RESPONSE", method, url, statusCode>>,
          LogObject(<<Prop(<<"b", "o", "d", "y">>, maskSensitiveData(body))>>))

\* logger.logError(error, context = {}, functionName = ''): the context is
\* spread into the entry as it is
logError(error, context, functionName) ==
    Entry("error", <<"Error in", functionName, error.message>>,
          LogObject(<<Prop(<<"m", "e", "s", "s", "a", "g", "e">>,
                              StringValue(error.message)),
                         Prop(<<"s", "t", "a", "c", "k">>, StringValue(error.stack)),
                         Prop(<<"n", "a", "m", "e">>, StringValue(error.name)),
                         Prop(<<"c", "o", "d", "e">>, UndefinedValue)>>
                       \o (IF context.type = "object" THEN context.props ELSE <<>>)))

\* logger.logDatabaseQuery(query, params = {}, duration = null)
logDatabaseQuery(query, params) ==
    Entry("debug", <<"DATABASE QUERY", query>>,
          LogObject(<<Prop(<<"p", "a", "r", "a", "m", "s">>,
                              maskSensitiveData(params))>>))

\* logger.logWebhook(eventType, payload, signature = '')
logWebhook(eventType, payload, signature) ==
    Entry("info", <<"WEBHOOK RECEIVED", eventType>>,
          LogObject(<<Prop(<<"p", "a", "y", "l", "o", "a", "d">>,
                              maskSensitiveData(payload)),
                         Prop(<<"s", "i", "g", "n", "a", "t", "u", "r", "e",
                                "P", "r", "e", "s", "e", "n", "t">>,
                              BooleanValue(signature # <<>>))>>))

\* the helpers
LogHelpers == {"logFunctionEntry", "logFunctionExit", "logApiRequest",
               "logApiResponse", "logError", "logDatabaseQuery", "logWebhook"}

\* the entry a helper emits for the data it is given
Emitted(helper, data, statusCode) ==
    CASE helper = "logFunctionEntry" -> logFunctionEntry("f", data)
      [] helper = "logFunctionExit" -> logFunctionExit("f", data)
      [] helper = "logApiRequest" ->
            logApiRequest("POST", "/pay", data, data)
      [] helper = "logApiResponse" -> logApiResponse("POST", "/pay", statusCode, data)
      [] helper = "logError" ->
            logError([message |-> <<"b", "o", "o", "m">>,
                      stack |-> <<"a", "t", " ", "f">>,
                      name |-> <<"E", "r", "r", "o", "r">>], data, "f")
      [] helper = "logDatabaseQuery" -> logDatabaseQuery("SELECT 1", data)
      [] helper = "logWebhook" -> logWebhook("transaction.completed", data, <<"s">>)

\* the data the callers log

LogData ==
    { NullValue,
      \* an empty object
      LogObject(<<>>),
      \* nothing sensitive
      LogObject(<<Prop(<<"a", "m", "o", "u", "n", "t">>, StringValue(<<"1", "0", "0">>))>>),
      \* a password
      LogObject(<<Prop(<<"a", "m", "o", "u", "n", "t">>, StringValue(<<"1", "0", "0">>)), Prop(<<"p", "a", "s", "s", "w", "o", "r", "d">>, StringValue(<<"h", "u", "n", "t", "e", "r", "2", "2">>))>>),
      \* the context of validateXPayToken's catch
      LogObject(<<Prop(<<"x", "P", "a", "y", "T", "o", "k", "e", "n">>, StringValue(<<"x", "v", "2", ":", "1", "7", ":", "a", "b">>))>>),
      \* a card number
      LogObject(<<Prop(<<"c", "a", "r", "d", "N", "u", "m", "b", "e", "r">>, StringValue(<<"4", "1", "1", "1", "1", "2", "3", "4">>))>>),
      \* a short value
      LogObject(<<Prop(<<"c", "v", "v">>, StringValue(<<"1", "2", "3">>))>>),
      \* a password one level down
      LogObject(<<Prop(<<"u", "s", "e", "r">>, LogObject(<<Prop(<<"n", "a", "m", "e">>, StringValue(<<"b", "o", "b">>)), Prop(<<"p", "a", "s", "s", "w", "o", "r", "d">>, StringValue(<<"h", "u", "n", "t", "e", "r", "2", "2">>))>>))>>),
      \* a token two levels down
      LogObject(<<Prop(<<"a">>, LogObject(<<Prop(<<"b">>, LogObject(<<Prop(<<"t", "o", "k", "e", "n">>, StringValue(<<"a", "b", "c", "d", "e", "f", "g", "h">>))>>))>>))>>),
      \* an object under a sensitive name
      LogObject(<<Prop(<<"t", "o", "k", "e", "n">>, LogObject(<<Prop(<<"v", "a", "l", "u", "e">>, StringValue(<<"a", "b", "c", "d", "e", "f", "g", "h">>))>>))>>),
      \* the context of loadKeys' catch
      LogObject(<<Prop(<<"p", "u", "b", "l", "i", "c", "K", "e", "y", "P", "a", "t", "h">>, StringValue(<<"/", "k", "/", "p", "u", "b">>)), Prop(<<"p", "r", "i", "v", "a", "t", "e", "K", "e", "y", "P", "a", "t", "h">>, StringValue(<<"/", "k", "/", "p", "r", "i", "v">>))>>),
      \* a name with an underscore
      LogObject(<<Prop(<<"a", "p", "i", "_", "k", "e", "y">>, StringValue(<<"k", "-", "1", "2", "3", "4", "5", "6">>))>>),
      \* a name in camel case
      LogObject(<<Prop(<<"s", "h", "a", "r", "e", "d", "S", "e", "c", "r", "e", "t">>, StringValue(<<"s", "3", "c", "r", "3", "t", "0", "0">>))>>),
      \* a number under a sensitive name
      LogObject(<<Prop(<<"p", "i", "n">>, NumberValue)>>),
      \* a request header
      LogObject(<<Prop(<<"A", "u", "t", "h", "o", "r", "i", "z", "a", "t", "i", "o", "n">>, StringValue(<<"B", "e", "a", "r", "e", "r", " ", "x", "y">>))>>),
      \* the context of validateSignature's catch
      LogObject(<<Prop(<<"t", "i", "m", "e", "s", "t", "a", "m", "p">>, StringValue(<<"1", "7">>))>>) }


\* the HTTP statuses logApiResponse is given
StatusCodes == {200, 401}

\* a caller logs through one of the helpers
LogCall ==
    /\ \E helper \in LogHelpers, data \in LogData, statusCode \in StatusCodes :
          /\ helper # "logApiResponse" => statusCode = 200
          /\ logEntry' = [called |-> TRUE, helper |-> helper, data |-> data,
                          entry |-> Emitted(helper, data, statusCode)]
    /\ UNCHANGED <<clock, publicKey, privateKey, sharedSecret,
                   xPayToken, xPayCall, webhook, webhookCall>>
    /\ UNCHANGED <<middlewareVars, encryptionVars, sslVars>>
    /\ UNCHANGED <<keyVars, expiryVars, replayVars>>

NextLogger == LogCall

SpecLogger == Init /\ [][NextLogger]_vars

-----------------------------------------------------------------------------
(* C23: every structured log helper redacts, at every nesting depth, the   *)
(* value of each field whose name is sensitive before the entry is         *)
(* emitted: no emitted entry carries such a value as it was given.         *)

\* a value with the mask in it
Redacted(value) == value.type = "string" /\ Includes(value.value, FourStars)

\* some field with a sensitive name, at some depth, holds an unredacted value
RECURSIVE Leaks(_)
Leaks(value) ==
    /\ value.type = "object"
    /\ \E i \in 1..Len(value.props) :
          IF IsSensitive(LowerKey(value.props[i].name))
          THEN ~Redacted(value.props[i].value)
          ELSE Leaks(value.props[i].value)

C23_SensitiveRedacted ==
    logEntry.called => ~Leaks(logEntry.entry.meta)

-----------------------------------------------------------------------------
(* XPayTokenConfig: construction and the key files                         *)
(*                                                                         *)
(* A key file is named by the PEM it holds.  keyFiles records what was at  *)
(* the two paths when the constructor was entered and what is there now.   *)

\* the pair crypto.generateKeyPairSync('rsa', ...) makes: a new one
GeneratedKeyPair == [public |-> "pub3", private |-> "priv3"]

KeyFiles(before, public, private) ==
    [looked |-> TRUE, before |-> before, public |-> public, private |-> private]

\* the outcome of the constructor or of one of its steps: the instance or
\* the error thrown, and the key files as the step leaves them
Constructed(instance, files) == [instance |-> instance, files |-> files]
Failed(error, files) ==
    [instance |-> [constructed |-> FALSE, error |-> error], files |-> files]

\* generateKeyPair(): path.dirname and writeFileSync throw on an undefined
\* path; what was written before the throw stays written
generateKeyPair(instance, files) ==
    IF files.public = NoPath THEN Failed("TypeError", files)
    ELSE LET written == [files EXCEPT !.public = GeneratedKeyPair.public]
         IN IF files.private = NoPath THEN Failed("TypeError", written)
            ELSE Constructed([instance EXCEPT
                                 !.publicKey = GeneratedKeyPair.public,
                                 !.privateKey = GeneratedKeyPair.private,
                                 !.generated = TRUE],
                             [written EXCEPT !.private = GeneratedKeyPair.private])

\* loadKeys(): generates when there is no private key file, reads both files
\* otherwise
loadKeys(instance, files) ==
    IF ~existsSync(files.private) THEN generateKeyPair(instance, files)
    ELSE IF files.public = NoPath THEN Failed("TypeError", files)
    ELSE IF files.public = AbsentFile THEN Failed("ENOENT", files)
    ELSE Constructed([instance EXCEPT !.publicKey = files.public,
                                      !.privateKey = files.private],
                     files)

\* new XPayTokenConfig(): validateConfig(), then loadKeys()
XPayTokenConfig(apiKey, files) ==
    IF IsFalsy(apiKey)
    THEN Failed("Missing required configuration: XPAY_API_KEY", files)
    ELSE loadKeys([constructed |-> TRUE, apiKey |-> apiKey,
                   publicKey |-> undefined, privateKey |-> undefined,
                   generated |-> FALSE],
                  files)

\* getHeaders(resourcePath, queryString = '', requestBody = '')
getHeaders(instance, ms, resourcePath, queryString, requestBody, uuid) ==
    [xPayToken |-> generateXPayToken(instance.privateKey, ms, resourcePath,
                                     queryString, requestBody),
     clientTxId |-> uuid]

\* getPublicKeyPEM()
getPublicKeyPEM(instance) == instance.publicKey

\* process.env.XPAY_API_KEY: set or not
ApiKeys == {<<"k", "1">>, undefined}

\* what is at XPAY_PUBLIC_KEY_PATH and at XPAY_PRIVATE_KEY_PATH
PublicKeyFiles == {NoPath, AbsentFile, "pub1", "pub2"}
PrivateKeyFiles == {NoPath, AbsentFile, "priv1", "priv2"}

\* crypto.randomUUID()
UUIDs == {"uuid1", "uuid2"}

XPayTokenConfigCall ==
    /\ xPayConfig = NoInstance
    /\ \E apiKey \in ApiKeys, public \in PublicKeyFiles, private \in PrivateKeyFiles :
          LET before == [public |-> public, private |-> private]
              r == XPayTokenConfig(apiKey, before)
          IN /\ xPayConfig' = r.instance
             /\ keyFiles' = KeyFiles(before, r.files.public, r.files.private)
    /\ UNCHANGED <<clock, publicKey, privateKey, sharedSecret,
                   xPayToken, xPayCall, webhook, webhookCall>>
    /\ UNCHANGED <<middlewareVars, encryptionVars, sslVars>>
    /\ UNCHANGED <<loggerVars, keyCall, expiryVars, replayVars>>

\* a caller signs a request with the instance
KeyGenerateXPayTokenCall ==
    /\ xPayConfig.constructed
    /\ keyCall = NoCall
    /\ \E p \in Paths, q \in Queries, b \in Bodies :
          keyCall' = [called |-> TRUE, op |-> "generateXPayToken",
                      result |-> generateXPayToken(xPayConfig.privateKey, clock,
                                                   p, q, b)]
    /\ UNCHANGED <<clock, publicKey, privateKey, sharedSecret,
                   xPayToken, xPayCall, webhook, webhookCall>>
    /\ UNCHANGED <<middlewareVars, encryptionVars, sslVars>>
    /\ UNCHANGED <<loggerVars, keyFiles, xPayConfig, expiryVars, replayVars>>

\* a caller has the instance validate a token: one signed with the instance's
\* private key or with a stranger's
KeyValidateXPayTokenCall ==
    /\ xPayConfig.constructed
    /\ keyCall = NoCall
    /\ \E p \in Paths, q \in Queries, signer \in {xPayConfig.privateKey, "priv2"} :
          LET token == generateXPayToken(signer, clock, p, q, <<>>)
          IN keyCall' = [called |-> TRUE, op |-> "validateXPayToken",
                         token |-> token,
                         result |-> validateXPayToken(xPayConfig.publicKey, clock,
                                                      token, p, q, <<>>)]
    /\ UNCHANGED <<clock, publicKey, privateKey, sharedSecret,
                   xPayToken, xPayCall, webhook, webhookCall>>
    /\ UNCHANGED <<middlewareVars, encryptionVars, sslVars>>
    /\ UNCHANGED <<loggerVars, keyFiles, xPayConfig, expiryVars, replayVars>>

\* a caller asks for the headers of a request
GetHeadersCall ==
    /\ xPayConfig.constructed
    /\ keyCall = NoCall
    /\ \E p \in Paths, q \in Queries, uuid \in UUIDs :
          keyCall' = [called |-> TRUE, op |-> "getHeaders",
                      result |-> getHeaders(xPayConfig, clock, p, q, <<>>, uuid)]
    /\ UNCHANGED <<clock, publicKey, privateKey, sharedSecret,
                   xPayToken, xPayCall, webhook, webhookCall>>
    /\ UNCHANGED <<middlewareVars, encryptionVars, sslVars>>
    /\ UNCHANGED <<loggerVars, keyFiles, xPayConfig, expiryVars, replayVars>>

\* a caller asks for the public key
GetPublicKeyPEMCall ==
    /\ xPayConfig.constructed
    /\ keyCall = NoCall
    /\ keyCall' = [called |-> TRUE, op |-> "getPublicKeyPEM",
                   result |-> getPublicKeyPEM(xPayConfig)]
    /\ UNCHANGED <<clock, publicKey, privateKey, sharedSecret,
                   xPayToken, xPayCall, webhook, webhookCall>>
    /\ UNCHANGED <<middlewareVars, encryptionVars, sslVars>>
    /\ UNCHANGED <<loggerVars, keyFiles, xPayConfig, expiryVars, replayVars>>

\* the caller has taken the result
KeyReturn ==
    /\ keyCall # NoCall
    /\ keyCall' = NoCall
    /\ UNCHANGED <<clock, publicKey, privateKey, sharedSecret,
                   xPayToken, xPayCall, webhook, webhookCall>>
    /\ UNCHANGED <<middlewareVars, encryptionVars, sslVars>>
    /\ UNCHANGED <<loggerVars, keyFiles, xPayConfig, expiryVars, replayVars>>

NextKeys ==
    \/ XPayTokenConfigCall
    \/ KeyGenerateXPayTokenCall
    \/ KeyValidateXPayTokenCall
    \/ GetHeadersCall
    \/ GetPublicKeyPEMCall
    \/ KeyReturn

SpecKeys == Init /\ [][NextKeys]_vars

-----------------------------------------------------------------------------
(* C24: XPayTokenConfig generates a key pair only during construction and  *)
(* only when the key files are absent; generateXPayToken,                  *)
(* validateXPayToken, getHeaders and getPublicKeyPEM never generate, write *)
(* or change key material.  Every step that changes the keys in memory or  *)
(* the key files is the constructor, and the constructor generates only    *)
(* when neither key file was there.                                        *)

C24_GenerationOnlyWhenAbsent ==
    [][(xPayConfig' # xPayConfig \/ keyFiles' # keyFiles) =>
          /\ xPayConfig = NoInstance
          /\ (xPayConfig'.constructed /\ xPayConfig'.generated) =>
                /\ ~existsSync(keyFiles'.before.public)
                /\ ~existsSync(keyFiles'.before.private)]_vars

-----------------------------------------------------------------------------
(* C30: constructing XPayTokenConfig never overwrites an existing key      *)
(* file: whatever combination of the two files was there, each file that   *)
(* existed has the same content afterwards; and after a successful         *)
(* construction the keys in memory are the two halves stored in the files. *)

C30_ExistingFilesKept ==
    keyFiles.looked =>
        /\ existsSync(keyFiles.before.public) =>
              keyFiles.public = keyFiles.before.public
        /\ existsSync(keyFiles.before.private) =>
              keyFiles.private = keyFiles.before.private
        /\ xPayConfig.constructed =>
              /\ xPayConfig.publicKey = keyFiles.public
              /\ xPayConfig.privateKey = keyFiles.private

-----------------------------------------------------------------------------
(* C25: a token generated for (path, query, body) is accepted only when    *)
(* the verifier's path, query and body are each equal to the signed ones;  *)
(* no different triple is accepted with that token.                        *)

\* path, query and body of a request, an omitted argument taking its default
Triple(request) ==
    <<request.resourcePath, DefaultParam(request.queryString, <<>>),
      DefaultParam(request.requestBody, <<>>)>>

\* the text the three make when written one after the other
Concatenation(request) ==
    Triple(request)[1] \o Triple(request)[2] \o Triple(request)[3]

C25_SameTripleOnly ==
    (CallPresentsIssuedToken /\ xPayCall.result.value)
    => Triple(xPayCall) = Triple(xPayToken)

\* as amended: the token in flight is accepted only for a request whose path,
\* query and body concatenate to the text that was signed
C25_SameConcatenationOnly ==
    (CallPresentsIssuedToken /\ xPayCall.result.value)
    => Concatenation(xPayCall) = Concatenation(xPayToken)

\* the token in flight is accepted for a request that moves a character
\* across a boundary
C25_Witness ==
    /\ CallPresentsIssuedToken
    /\ xPayCall.result.value
    /\ Triple(xPayCall) # Triple(xPayToken)
    /\ Concatenation(xPayCall) = Concatenation(xPayToken)

-----------------------------------------------------------------------------
(* VisaSSLConfig.checkCertificateExpiry                                    *)
(*                                                                         *)
(* A Date is a day number since 1970-01-01 and the milliseconds into that  *)
(* day, a difference of two Dates a number of whole days and the           *)
(* milliseconds beyond them: the arithmetic of the code, exactly, in       *)
(* numbers that stay small.                                                *)

\* 1000 * 60 * 60 * 24
DayMs == 86400000

\* new Date('2024-02-25') and new Date('2026-02-25'): midnight UTC
NotBeforeDay == 19778
NotAfterDay == 20509

\* result.daysUntilExpiry < 30
ExpiringSoonDays == 30

Date(day, ms) == [day |-> day, ms |-> ms]

\* a - b for two Dates, in milliseconds: days * DayMs + ms, 0 <= ms < DayMs
DateMinus(a, b) ==
    IF a.ms - b.ms < 0
    THEN [days |-> a.day - b.day - 1, ms |-> a.ms - b.ms + DayMs]
    ELSE [days |-> a.day - b.day, ms |-> a.ms - b.ms]

\* Math.ceil(difference / DayMs)
CeilDays(difference) ==
    IF difference.ms = 0 THEN difference.days ELSE difference.days + 1

\* certString.match(/-----BEGIN CERTIFICATE-----\n([\s\S]+?)\n-----END CERTIFICATE-----/)
CertMatch(cert) == cert = "pem"

\* result[name]: a property the record has, or undefined
ResultProperty(result, name) ==
    IF name = "isExpired" THEN [defined |-> TRUE, value |-> result.isExpired]
    ELSE IF name = "expiringSoon"
    THEN [defined |-> TRUE, value |-> result.expiringSoon]
    ELSE [defined |-> FALSE]

\* if (value)
Truthy(property) == property.defined /\ property.value

\* the level of the entry that reports the status: the second branch reads
\* result.expiringsSoon
StatusLevel(result) ==
    IF Truthy(ResultProperty(result, "isExpired")) THEN "error"
    ELSE IF Truthy(ResultProperty(result, "expiringsSoon")) THEN "warn"
    ELSE "info"

\* checkCertificateExpiry(): what it returns or raises, and the levels of the
\* entries it logs
checkCertificateExpiry(cert, now) ==
    IF ~CertMatch(cert)
    THEN [raised |-> TRUE, reason |-> "Invalid certificate format",
          levels |-> <<"debug", "error">>]
    ELSE LET daysUntilExpiry == CeilDays(DateMinus(Date(NotAfterDay, 0), now))
             result == [notBefore |-> Date(NotBeforeDay, 0),
                        notAfter |-> Date(NotAfterDay, 0),
                        daysUntilExpiry |-> daysUntilExpiry,
                        isExpired |-> daysUntilExpiry < 0,
                        expiringSoon |-> daysUntilExpiry < ExpiringSoonDays]
         IN [raised |-> FALSE, value |-> result,
             levels |-> <<"debug", StatusLevel(result), "debug">>]

\* what this.cert holds: a PEM certificate or a file of another format
CertTexts == {"pem", "der"}

\* new Date(): days before (negative) or after notAfter, and a time of day
DayOffsets == {0 - 400, 0 - 31, 0 - 30, 0 - 29, 0 - 28, 0 - 2, 0 - 1, 0,
               1, 2, 28, 29, 30, 31, 400}
TimesOfDay == {0, 1, 3600000, DayMs - 1}
NowSamples == {Date(NotAfterDay + d, ms) : d \in DayOffsets, ms \in TimesOfDay}

\* a caller checks the certificate
CheckCertificateExpiryCall ==
    /\ \E cert \in CertTexts, now \in NowSamples :
          certificateStatus' = [called |-> TRUE, cert |-> cert, now |-> now,
                                result |-> checkCertificateExpiry(cert, now)]
    /\ UNCHANGED <<clock, publicKey, privateKey, sharedSecret,
                   xPayToken, xPayCall, webhook, webhookCall>>
    /\ UNCHANGED <<middlewareVars, encryptionVars, sslVars>>
    /\ UNCHANGED <<loggerVars, keyVars, replayVars>>

NextExpiry == CheckCertificateExpiryCall

SpecExpiry == Init /\ [][NextExpiry]_vars

-----------------------------------------------------------------------------
(* C26: checkCertificateExpiry reports isExpired = true exactly when the   *)
(* current time is later than notAfter, and expiringSoon = true exactly    *)
(* when fewer than 30 days remain until notAfter; so isExpired implies     *)
(* expiringSoon in every returned record.                                  *)

\* the check has returned a record
ExpiryReturned == certificateStatus.called /\ ~certificateStatus.result.raised

\* Date a is later than Date b
Later(a, b) == a.day > b.day \/ (a.day = b.day /\ a.ms > b.ms)

\* fewer than n days lie between now and the Date notAfter
FewerDaysRemain(now, notAfter, n) == DateMinus(notAfter, now).days < n

C26_FlagsExact ==
    ExpiryReturned =>
        LET r == certificateStatus.result.value
            now == certificateStatus.now
        IN /\ r.isExpired <=> Later(now, r.notAfter)
           /\ r.expiringSoon <=> FewerDaysRemain(now, r.notAfter, ExpiringSoonDays)
           /\ r.isExpired => r.expiringSoon

-----------------------------------------------------------------------------
(* C27: when checkCertificateExpiry finds the certificate not expired but  *)
(* expiring within 30 days it logs a warning-level entry; it logs an       *)
(* error-level entry when the certificate is expired and an info-level     *)
(* entry only when neither holds.                                          *)

\* the levels of the entries the check has logged
LoggedLevels ==
    {certificateStatus.result.levels[i] :
        i \in 1..Len(certificateStatus.result.levels)}

C27_LevelMatchesFinding ==
    ExpiryReturned =>
        LET r == certificateStatus.result.value
        IN /\ (~r.isExpired /\ r.expiringSoon) => "warn" \in LoggedLevels
           /\ r.isExpired => "error" \in LoggedLevels
           /\ "info" \in LoggedLevels => (~r.isExpired /\ ~r.expiringSoon)

-----------------------------------------------------------------------------
(* C28: if encryptSensitiveFields fails because encryptPayload raises, the *)
(* caller's request object is as it was before the call: every listed      *)
(* field is still there with its value and no encryptedData was added.     *)

C28_RequestKeptOnFailure ==
    (/\ encryptionCall.called
     /\ encryptionCall.op = "encryptSensitiveFields"
     /\ encryptionCall.result.raised)
    => /\ encryptionCall.result.request.props = encryptionCall.request
       /\ encryptionCall.result.request.encryptedData = NoEncryptedData

-----------------------------------------------------------------------------
(* One token or envelope presented again and again                         *)
(*                                                                         *)
(* A caller keeps the arguments of a validation call and repeats the call  *)
(* as the clock advances.  replay holds the arguments, the clock and the   *)
(* answer of the last call, whether the arguments were made by the         *)
(* generator (and when), and what the earlier calls answered.              *)

\* the arguments were not made by generateXPayToken or generateSignature
NotGenerated == [is |-> FALSE]
GeneratedAt(ms) == [is |-> TRUE, at |-> ms]

\* the tokens a caller presents for the first time when the clock reads ms:
\* one just generated, and ones the key holder or a stranger signed for an
\* earlier or a later second
FirstTokens(ms, p, q) ==
    {[token |-> generateXPayToken(privateKey, ms, p, q, <<>>),
      generated |-> GeneratedAt(ms)]}
    \cup {[token |-> Assemble(XV2, ts, SignatureFor(key, ts, p, q, <<>>)),
           generated |-> NotGenerated] :
             ts \in TimestampTexts(ms), key \in {privateKey, "priv2"}}

\* the envelopes a sender delivers for the first time when the clock reads ms
FirstEnvelopes(ms, payload) ==
    {[envelope |-> generateSignature(sharedSecret, ms, payload, undefined),
      generated |-> GeneratedAt(ms)]}
    \cup {[envelope |-> generateSignature(secret, ms, payload, ts),
           generated |-> NotGenerated] :
             ts \in TimestampTexts(ms), secret \in {sharedSecret, "secret2"}}

\* the payloads of those envelopes
ReplayPayloads == {ObjectPayload(<<"a", "1">>), StringPayload(<<"a">>)}

\* the last answer was a rejection of a timestamp that lies too far back
TooOld(call) ==
    IF call.kind = "xpay" THEN call.result.reason = "expired"
    ELSE /\ call.result.reason = "timestamp_expired"
         /\ GreaterThan(Num(UnixSeconds(call.at)), parseInt(call.timestamp))

\* a caller presents a token for the first time
ReplayXPayFirstCall ==
    /\ replay = NoCall
    /\ \E p \in Paths, q \in {<<>>, <<"a">>} :
         \E t \in FirstTokens(clock, p, q) :
            replay' = [called |-> TRUE, kind |-> "xpay",
                       token |-> t.token, resourcePath |-> p, queryString |-> q,
                       generated |-> t.generated,
                       at |-> clock,
                       result |-> validateXPayToken(publicKey, clock, t.token,
                                                    p, q, <<>>),
                       rejectedTooOld |-> FALSE,
                       acceptedBefore |-> FALSE]
    /\ UNCHANGED <<clock, publicKey, privateKey, sharedSecret,
                   xPayToken, xPayCall, webhook, webhookCall>>
    /\ UNCHANGED <<middlewareVars, encryptionVars, sslVars>>
    /\ UNCHANGED <<loggerVars, keyVars, expiryVars>>

\* the caller presents the same token with the same request again
ReplayXPayAgain ==
    /\ replay # NoCall
    /\ replay.kind = "xpay"
    /\ replay' = [replay EXCEPT
                    !.at = clock,
                    !.result = validateXPayToken(publicKey, clock, replay.token,
                                                 replay.resourcePath,
                                                 replay.queryString, <<>>),
                    !.rejectedTooOld = @ \/ TooOld(replay),
                    !.acceptedBefore = @ \/ replay.result.value]
    /\ UNCHANGED <<clock, publicKey, privateKey, sharedSecret,
                   xPayToken, xPayCall, webhook, webhookCall>>
    /\ UNCHANGED <<middlewareVars, encryptionVars, sslVars>>
    /\ UNCHANGED <<loggerVars, keyVars, expiryVars>>

\* a sender delivers an envelope for the first time
ReplayWebhookFirstCall ==
    /\ replay = NoCall
    /\ \E payload \in ReplayPayloads :
         \E e \in FirstEnvelopes(clock, payload) :
            replay' = [called |-> TRUE, kind |-> "webhook",
                       payload |-> payload,
                       signature |-> e.envelope.signature,
                       timestamp |-> e.envelope.timestamp,
                       generated |-> e.generated,
                       at |-> clock,
                       result |-> validateSignature(sharedSecret, clock, payload,
                                                    e.envelope.signature,
                                                    e.envelope.timestamp),
                       rejectedTooOld |-> FALSE,
                       acceptedBefore |-> FALSE]
    /\ UNCHANGED <<clock, publicKey, privateKey, sharedSecret,
                   xPayToken, xPayCall, webhook, webhookCall>>
    /\ UNCHANGED <<middlewareVars, encryptionVars, sslVars>>
    /\ UNCHANGED <<loggerVars, keyVars, expiryVars>>

\* the sender delivers the same envelope again
ReplayWebhookAgain ==
    /\ replay # NoCall
    /\ replay.kind = "webhook"
    /\ replay' = [replay EXCEPT
                    !.at = clock,
                    !.result = validateSignature(sharedSecret, clock,
                                                 replay.payload, replay.signature,
                                                 replay.timestamp),
                    !.rejectedTooOld = @ \/ TooOld(replay),
                    !.acceptedBefore = @ \/ replay.result.value]
    /\ UNCHANGED <<clock, publicKey, privateKey, sharedSecret,
                   xPayToken, xPayCall, webhook, webhookCall>>
    /\ UNCHANGED <<middlewareVars, encryptionVars, sslVars>>
    /\ UNCHANGED <<loggerVars, keyVars, expiryVars>>

\* the caller drops the arguments it kept
ReplayForget ==
    /\ replay # NoCall
    /\ replay' = NoCall
    /\ UNCHANGED <<clock, publicKey, privateKey, sharedSecret,
                   xPayToken, xPayCall, webhook, webhookCall>>
    /\ UNCHANGED <<middlewareVars, encryptionVars, sslVars>>
    /\ UNCHANGED <<loggerVars, keyVars, expiryVars>>

NextReplay ==
    \/ Tick
    \/ ReplayXPayFirstCall
    \/ ReplayXPayAgain
    \/ ReplayWebhookFirstCall
    \/ ReplayWebhookAgain
    \/ ReplayForget

SpecReplay == Init /\ [][NextReplay]_vars

-----------------------------------------------------------------------------
(* C29: with a clock that never goes back, acceptance is never regained:   *)
(* once validateXPayToken or validateSignature has rejected arguments      *)
(* because their timestamp is too old, every later call with the same      *)
(* arguments returns false; and what was generated at second T is accepted *)
(* at no second later than T + 300.                                        *)

\* the width, in seconds, of the window of the validator that was called
Window(call) == IF call.kind = "xpay" THEN MaxAge ELSE MaxTimeDiff

C29_NeverRegained ==
    replay.called =>
        /\ replay.rejectedTooOld => ~replay.result.value
        /\ (replay.generated.is /\ replay.result.value) =>
              UnixSeconds(replay.at) <= UnixSeconds(replay.generated.at) + Window(replay)

\* a generated token that was accepted and later rejected as too old has
\* been presented once more
C29_Witness ==
    /\ replay.called
    /\ replay.kind = "xpay"
    /\ replay.generated.is
    /\ replay.acceptedBefore
    /\ replay.rejectedTooOld
    /\ UnixSeconds(replay.at) > UnixSeconds(replay.generated.at) + Window(replay)
    /\ ~replay.result.value

====
